---- MODULE Spec2Model ----
(***************************************************************************)
(* Model of the concurrent directory scanners of my-cli:                   *)
(*   find-everything  (internal/finder: FileFinder, FindFilesAndDirs,      *)
(*                     processDir)                                         *)
(*   check-folder-size (internal/scanner: GetSizesOfSubfolders,            *)
(*                     getFolderSize)                                      *)
(* A path is a sequence of component names; a file system is a record of   *)
(* the directories, the files and what cannot be read.                     *)
(***************************************************************************)
EXTENDS Integers, Sequences, FiniteSets, Bags, TLC

\* ------------------------------------------------------------------ bounds
\* Largest worker count tried (ff.maxWorkers is drawn from 1..NumWorkers).
NumWorkers == 2
\* Capacity of dirQueue; the code allocates 10000 (walker.go:41), the model
\* a small one so that the full-queue branch of processDir is exercised.
QueueCap == 1
\* Stand-in for the periodic flush threshold, 100 in the code (walker.go:86).
FlushThreshold == 1
\* Stand-in for the size cache capacity, 10000 in the code (finder part_004:148).
CacheCap == 2
\* Longest path (in components) handed to ShouldExclude on its own.
MaxPathLen == 2
\* Largest runtime.NumCPU() tried by the size scanner (scanner.go:84).
NumCPU == 2

\* Concurrent callers of GetFileSize tried.
NumCallers == 2

\* ------------------------------------------------------- program constants
\* Default of --max-results (cmd/root.go:108): larger than any modelled tree.
DefaultMaxResults == 10000
\* parseSize("inf") (cmd/root.go:120): 1<<63 - 1 in the code; the largest
\* integer representable here.
MaxSizeInf == 2147483647

Workers == 1..NumWorkers

ScanWorkers == 1..NumCPU

\* Goroutines that call GetFileSize at the same time.
Callers == 1..NumCallers

\* ------------------------------------------------------------------- names
\* Entry names, as ReadDir orders them (bytewise: upper case first).
NameOrder == <<"LIB", "lib", "src", "x.go", "y.md">>

Names == {NameOrder[i] : i \in 1..Len(NameOrder)}

\* strings.ToLower on the modelled names.
ToLower(s) == IF s = "LIB" THEN "lib" ELSE s

\* filepath.Ext on the modelled names: the suffix from the last dot.
Ext(name) ==
    CASE name = "x.go" -> ".go"
      [] name = "y.md" -> ".md"
      [] OTHER -> ""

\* filepath.Join(path, entryName)
Join(path, name) == Append(path, name)

\* ------------------------------------------------------------ file systems
\* A file system: the root handed to the tool, its directories and files,
\* its symbolic links (each with the path it points at, <<>> when that does
\* not exist), the directories whose listing fails, the files whose stat
\* fails, and the size of each file.
Tree1 ==
    [root |-> <<"src">>,
     dirs |-> {<<"src">>, <<"src", "LIB">>, <<"src", "lib">>, <<"src", "src">>,
               <<"src", "lib", "src">>},
     files |-> {<<"src", "x.go">>, <<"src", "lib", "x.go">>,
                <<"src", "LIB", "y.md">>},
     links |-> {},
     target |-> <<>>,
     unreadable |-> {},
     nostat |-> {},
     big |-> {<<"src", "x.go">>}]

Tree2 ==
    [root |-> <<"lib">>,
     dirs |-> {<<"lib">>, <<"lib", "src">>, <<"lib", "src", "src">>},
     files |-> {<<"lib", "x.go">>, <<"lib", "src", "x.go">>,
                <<"lib", "src", "src", "y.md">>},
     links |-> {},
     target |-> <<>>,
     unreadable |-> {},
     nostat |-> {},
     big |-> {}]

Tree3 ==
    [root |-> <<"src">>,
     dirs |-> {<<"src">>, <<"src", "lib">>, <<"src", "src">>},
     files |-> {<<"src", "x.go">>, <<"src", "lib", "x.go">>,
                <<"src", "src", "x.go">>, <<"src", "src", "y.md">>},
     links |-> {},
     target |-> <<>>,
     unreadable |-> {<<"src", "lib">>},
     nostat |-> {<<"src", "src", "x.go">>},
     big |-> {<<"src", "x.go">>}]

Trees == {Tree1, Tree2, Tree3}

\* A root that does not exist, and a root that is a file.
Tree4 ==
    [root |-> <<"lib">>,
     dirs |-> {},
     files |-> {},
     links |-> {},
     target |-> <<>>,
     unreadable |-> {},
     nostat |-> {},
     big |-> {}]

Tree5 ==
    [root |-> <<"x.go">>,
     dirs |-> {},
     files |-> {<<"x.go">>},
     links |-> {},
     target |-> <<>>,
     unreadable |-> {},
     nostat |-> {},
     big |-> {<<"x.go">>}]

\* A root with as many subdirectories as there are names, all empty.
Tree6 ==
    [root |-> <<"src">>,
     dirs |-> {<<"src">>} \cup {<<"src", n>> : n \in Names},
     files |-> {},
     links |-> {},
     target |-> <<>>,
     unreadable |-> {},
     nostat |-> {},
     big |-> {}]

\* info.Size() of a file: 2 bytes for the big ones, 0 for the others.
FileSize(t, p) == IF p \in t.big THEN 2 ELSE 0

\* os.ReadDir(path): the entry names of a directory, sorted by name.
ReadDir(t, path) ==
    SelectSeq(NameOrder,
              LAMBDA n : Join(path, n) \in t.dirs \cup t.files \cup t.links)

\* entry.IsDir(): false for a symbolic link, whatever it points at.
IsDir(t, p) == p \in t.dirs

\* os.ReadDir(path) fails: the path is not a directory (a file, or nothing
\* at all), or the directory cannot be read.
ReadDirErr(t, path) == path \notin t.dirs \/ path \in t.unreadable

\* ------------------------------------------------------------- FileFinder
VARIABLES
    fs,             \* the file system being scanned
    options,        \* the FinderOptions given on the command line
    ff,             \* the FileFinder fields set by NewFileFinder (read-only)
    fileCache,      \* ff.fileCache: path -> size
    ctxDone,        \* ff.ctx is cancelled
    dirQueue,       \* the buffered channel of directories to process
    closed,         \* dirQueue has been closed
    sendPanic,      \* a send on the closed dirQueue happened
    senders,        \* paths held by the fallback goroutines of processDir
    processingWg,   \* counter of the WaitGroup of jobs
    workerWg,       \* counter of the WaitGroup of workers
    matchedFiles,   \* shared results
    matchedDirs,
    resultsMu,      \* 0, or the worker holding the mutex
    totalDirs,      \* atomic counters of FindFilesAndDirs
    skippedDirs,
    mainPc,         \* where FindFilesAndDirs itself stands
    monitorPc,      \* where the completion monitor stands
    pc,             \* where each worker stands
    wpath,          \* the directory a worker is processing
    wents,          \* the entries of it not yet handled
    localFiles,     \* a worker's local batches
    localDirs,
    newCount,       \* the count a worker read inside its last merge
    draining,       \* the worker's job loop has ended (deferred flush)
    listed,         \* history: for each directory, the workers that listed it
    enqueued,       \* history: the bag of paths ever sent to dirQueue
    zeroHits,       \* history: times processingWg came down to zero
    closeCount,     \* history: times dirQueue was closed
    exPath,         \* the path of the last call of ShouldExclude on its own
    exResult,       \* what that call returned
    exCalled,       \* such a call was made
    recorded,       \* history: the bag of matches appended to local batches
    lateJobs,       \* history: directories dequeued when the context was done
    cancelCalls,    \* history: calls of ff.cancel()
    notices,        \* what FindFilesAndDirs printed as it returned
    gpc,            \* where each caller of GetFileSize on its own stands
    gpath,          \* the path it was called with
    gsize,          \* the size it read or returned
    gok,            \* the ok result it returned
    execPc,         \* where the command's Execute stands
    execArgs,       \* the flag values the command was given
    execErr,        \* the error Execute returned ("" for none)
    updaterPc,      \* where the progress updater goroutine stands
    trackerTotalDirs,     \* progressTracker.totalDirs
    trackerProcessedDirs, \* progressTracker.processedDirs
    wtotal          \* the total a worker loaded and is about to publish

\* ------------------------------------------------------ check-folder-size
VARIABLES
    scanOpts,       \* the ScanOptions: ExcludeList, MaxDepth, and the CPU count
    scanCtxDone,    \* opts.Ctx is cancelled
    workItems,      \* the immediate children kept by the exclusion filter
    numWorkers,     \* the size of the worker pool
    jobs,           \* the buffered channel of work items
    jobsClosed,
    results,        \* the buffered channel of work results
    resultsClosed,
    wg,             \* counter of the WaitGroup of workers
    warningCount,   \* the atomic warning counter
    subfolderSizes, \* the map the results are gathered in
    scanPc,         \* where GetSizesOfSubfolders itself stands
    feedIdx,        \* the work item the job feeder is at
    feederPc,       \* where the job feeder stands
    closerPc,       \* where the goroutine closing results stands
    spc,            \* where each worker stands
    sitem,          \* the work item a worker holds
    walkStack,      \* the paths WalkDir has still to visit, in order
    totalSize,      \* totalSize of the worker's getFolderSize, or the file size
    scanResult,     \* the ScanResult returned
    cancelNotice,   \* "Scan cancelled ... (partial results returned)" printed
    sentItems,      \* history: names ever sent on jobs
    listedDirs,     \* history: directories whose entries were read
    visited,        \* history: paths the walk callback or os.Stat was given
    counted         \* history: files whose size was added to a total

\* -------------------------------------------------------- api-stress-test
VARIABLES
    stArgs,         \* totalRequests and concurrency of RunStressTest
    stCtxDone,      \* ctx is cancelled
    sigPc,          \* where the goroutine waiting for a signal stands
    stJobs,         \* the number of job tokens in the jobs channel
    stJobsClosed,
    stResults,      \* the buffered channel of request results
    stResultsClosed,
    stWg,           \* counter of the WaitGroup of workers
    stFeedI,        \* the loop index of the job feeder
    stFeederPc,     \* where the job feeder stands
    stCloserPc,     \* where the goroutine closing results stands
    stWorkers,      \* how many workers stand at each position
    stSending,      \* the results held by workers at `results <- result`
    stBatch,        \* batch of the collecting loop
    stCompleted,    \* completed of the collecting loop
    collector,      \* the fields of the stats.Collector
    stMainPc,       \* where RunStressTest itself stands
    stProduced,     \* history: the number of requests executed
    stRecordedIds   \* history: the results passed to Record, in order

\* ------------------------------------------------------------ replace-text
VARIABLES
    rfPc,           \* where processFile stands
    rfArgs,         \* oldText, newText and createBackup
    rfOrig,         \* the bytes of the file when processFile was called
    rfBak0,         \* what <file>.bak held then
    rfFile,         \* what the original path holds
    rfBak,          \* what <file>.bak holds
    rfContent,      \* content, as read
    rfErr           \* the error returned ("" for nil)

stressVars ==
    <<stArgs, stCtxDone, sigPc, stJobs, stJobsClosed, stResults,
      stResultsClosed, stWg, stFeedI, stFeederPc, stCloserPc, stWorkers,
      stSending, stBatch, stCompleted, collector, stMainPc, stProduced,
      stRecordedIds>>

replaceVars ==
    <<rfPc, rfArgs, rfOrig, rfBak0, rfFile, rfBak, rfContent, rfErr>>

scannerVars ==
    <<scanOpts, scanCtxDone, workItems, numWorkers, jobs, jobsClosed, results,
      resultsClosed, wg, warningCount, subfolderSizes, scanPc, feedIdx,
      feederPc, closerPc, spc, sitem, walkStack, totalSize, scanResult,
      cancelNotice, sentItems, listedDirs, visited, counted>>

\* What no step of a finder scan changes.
filterVars == <<exPath, exResult, exCalled>>

\* The calls of GetFileSize made on their own.
cacheCallVars == <<gpc, gpath, gsize, gok>>

\* The command around the finder.
execVars == <<execPc, execArgs, execErr>>

\* The progress updater and the progress tracker.
progressVars == <<updaterPc, trackerTotalDirs, trackerProcessedDirs, wtotal>>

\* What surrounds a finder scan.
frame1 ==
    <<fs, options, ff, execVars, filterVars, cacheCallVars, scannerVars,
      stressVars, replaceVars>>

frame0 == <<frame1, progressVars>>

\* What is recorded about a finder scan (no code reads the history).
histVars == <<recorded, lateJobs, cancelCalls, notices>>

frame == <<frame0, histVars>>

\* What the steps of a finder scan change.
finderState ==
    <<fileCache, ctxDone, dirQueue, closed, sendPanic, senders, processingWg,
      workerWg, matchedFiles, matchedDirs, resultsMu, totalDirs, skippedDirs,
      mainPc, monitorPc, pc, wpath, wents, localFiles, localDirs, newCount,
      draining, listed, enqueued, zeroHits, closeCount>>

finderVars == <<frame, finderState>>

\* The finder state that the steps publishing a total leave alone.
finderData ==
    <<fileCache, ctxDone, dirQueue, closed, sendPanic, senders, processingWg,
      workerWg, matchedFiles, matchedDirs, resultsMu, totalDirs, skippedDirs,
      mainPc, monitorPc, wpath, localFiles, localDirs, newCount, draining,
      listed, enqueued, zeroHits, closeCount>>

\* The finder state that the progress updater leaves alone.
finderState0 == <<finderData, pc, wents>>

\* The paths of a file system.
Paths(t) == t.dirs \cup t.files

\* NewFileFinder: the exclude-dirs set is keyed by the lower-cased names, the
\* worker count is at least 1.  The compiled pattern is modelled by the set
\* of names it matches, an exclude pattern is kept as its source text.
NewFileFinder(basePath, patternSet, o) ==
    [basePath |-> basePath,
     patternRegex |-> patternSet,
     excludeDirs |-> {ToLower(d) : d \in o.ExcludeDirs},
     excludePatterns |-> o.ExcludePatterns,
     fileTypes |-> {ToLower(e) : e \in o.FileTypes},
     minSize |-> o.MinSize,
     maxSize |-> o.MaxSize,
     maxResults |-> o.MaxResults,
     maxWorkers |-> IF o.MaxWorkers <= 0 THEN 1 ELSE o.MaxWorkers,
     showProgress |-> o.ShowProgress]

\* regexp.MatchString on the path, for the exclude patterns that are tried:
\* `y\.md$` matches a path whose last name ends so, `/lib/` a path with a
\* component lib that is neither its first nor its last.
MatchString(re, path) ==
    CASE re = "y\\.md$" -> path[Len(path)] = "y.md"
      [] re = "/lib/" -> \E i \in 2..(Len(path) - 1) : path[i] = "lib"
      [] OTHER -> FALSE

ShouldExcludeNoFold(f, path) ==
    \/ \E i \in 1..Len(path) : path[i] \in f.excludeDirs
    \/ \E i \in 1..Len(f.excludePatterns) :
          MatchString(f.excludePatterns[i], path)

\* FileFinder.ShouldExclude: some component of the path, lower-cased, is an
\* excluded name, or the path matches an exclude pattern.
ShouldExclude(f, path) ==
    \/ \E i \in 1..Len(path) : ToLower(path[i]) \in f.excludeDirs
    \/ \E i \in 1..Len(f.excludePatterns) :
          MatchString(f.excludePatterns[i], path)

\* FileFinder.MatchesPattern
MatchesPattern(f, name) == name \in f.patternRegex

\* FileFinder.CheckFileType
CheckFileType(f, path) ==
    \/ f.fileTypes = {}
    \/ ToLower(Ext(path[Len(path)])) \in f.fileTypes

\* The ok result of FileFinder.GetFileSize: a cache hit, or a stat that works.
GetFileSizeOk(t, cache, path) ==
    path \in DOMAIN cache \/ path \notin t.nostat

\* The size FileFinder.GetFileSize returns (0 when not ok).
GetFileSize(t, cache, path) ==
    IF path \in DOMAIN cache THEN cache[path]
    ELSE IF path \in t.nostat THEN 0
    ELSE FileSize(t, path)

\* The cache after FileFinder.GetFileSize: a stat'ed size is stored while
\* the cache holds fewer than its capacity.
CacheAfter(t, cache, path) ==
    IF /\ path \notin DOMAIN cache
       /\ path \notin t.nostat
       /\ Cardinality(DOMAIN cache) < CacheCap
    THEN [q \in DOMAIN cache \cup {path} |->
            IF q = path THEN FileSize(t, path) ELSE cache[q]]
    ELSE cache

\* FileFinder.CheckFileSize
CheckFileSize(f, t, cache, path) ==
    /\ GetFileSizeOk(t, cache, path)
    /\ GetFileSize(t, cache, path) >= f.minSize
    /\ GetFileSize(t, cache, path) <= f.maxSize

\* processDir, lines 148-155: whether a matching file is kept.
ShouldAdd(f, t, cache, path) ==
    /\ CheckFileType(f, path)
    /\ (f.minSize > 0 \/ f.maxSize < MaxSizeInf) => CheckFileSize(f, t, cache, path)

\* processDir, line 151: whether the size of a matching file is looked up.
SizeLookedUp(f, path) ==
    /\ CheckFileType(f, path)
    /\ (f.minSize > 0 \/ f.maxSize < MaxSizeInf)

\* ------------------------------------------------------------- scenarios
\* The options the command line hands to NewFileFinder (cmd/root.go:76-86):
\* every option has its default (no exclusion, no type or size filter, the
\* default --max-results) unless a scenario sets it.
DefaultOptions ==
    [ExcludeDirs |-> {},
     ExcludePatterns |-> <<>>,
     FileTypes |-> {},
     MinSize |-> 0,
     MaxSize |-> MaxSizeInf,
     MaxResults |-> DefaultMaxResults,
     MaxWorkers |-> NumWorkers,
     ShowProgress |-> TRUE]

\* The patterns: "*" and "*.go", each by the names it matches.
PatternAll == Names
PatternGo == {"x.go"}

\* Result limits are varied on every tree, with and without an excluded
\* name (given in upper case), for one worker (asked for as 0) and for two.
\* The largest worker count is tried on scans with two directories side by
\* side.
LimitScenarios ==
    {[tree |-> t, pattern |-> PatternAll,
      opts |-> [DefaultOptions EXCEPT !.ExcludeDirs = e, !.MaxResults = k,
                                      !.MaxWorkers = n]] :
        t \in Trees, e \in {{}, {"LIB"}}, k \in {1, 2, DefaultMaxResults},
        n \in {0, 2}}
    \cup
    {[tree |-> x.t, pattern |-> PatternAll,
      opts |-> [DefaultOptions EXCEPT !.ExcludeDirs = x.e, !.MaxResults = x.k]] :
        x \in {[t |-> Tree3, e |-> {}, k |-> 1],
                [t |-> Tree3, e |-> {}, k |-> DefaultMaxResults],
                [t |-> Tree1, e |-> {"LIB"}, k |-> 2]}}
    \cup
    {[tree |-> Tree2, pattern |-> PatternAll,
      opts |-> [DefaultOptions EXCEPT !.ExcludeDirs = {"lib"}, !.MaxWorkers = 2]]}
    \cup
    {[tree |-> Tree1, pattern |-> PatternGo,
      opts |-> [DefaultOptions EXCEPT !.MaxResults = 1, !.MaxWorkers = n]] :
        n \in {1, 2}}

\* The filters are varied with the default limit.
FilterScenarios ==
    {[tree |-> t, pattern |-> pat,
      opts |-> [DefaultOptions EXCEPT !.ExcludePatterns = re, !.FileTypes = ft,
                                      !.MinSize = lo,
                                      !.MaxWorkers = IF t = Tree3 THEN 2 ELSE 1]] :
        t \in {Tree1, Tree3}, pat \in {PatternAll, PatternGo},
        re \in {<<>>, <<"y\\.md$">>}, ft \in {{}, {".GO"}}, lo \in {0, 1}}

\* The base path is not a directory, for one worker (progress shown) and
\* for the largest worker count (--no-progress).
RootScenarios ==
    {[tree |-> t, pattern |-> PatternAll,
      opts |-> [DefaultOptions EXCEPT !.MaxWorkers = n,
                                      !.ShowProgress = (n = 1)]] :
        t \in {Tree4, Tree5}, n \in {1, NumWorkers}}

\* A wide directory, scanned by one worker.
WideScenarios ==
    {[tree |-> Tree6, pattern |-> PatternGo,
      opts |-> [DefaultOptions EXCEPT !.MaxWorkers = 1]]}

\* The runs of the finder that are explored.
Scenarios ==
    LimitScenarios \cup FilterScenarios \cup RootScenarios \cup WideScenarios

Idle == [w \in Workers |-> "off"]
NoPath == [w \in Workers |-> <<>>]

\* An empty map from names to sizes.
NoSizes == [n \in {} |-> 0]

NoItem == [Name |-> "", Path |-> <<>>, IsDir |-> FALSE]

\* The state GetSizesOfSubfolders starts from, at the given position.
ScannerReset(at) ==
    /\ scanCtxDone = FALSE
    /\ workItems = <<>>
    /\ numWorkers = 0
    /\ jobs = <<>>
    /\ jobsClosed = FALSE
    /\ results = <<>>
    /\ resultsClosed = FALSE
    /\ wg = 0
    /\ warningCount = 0
    /\ subfolderSizes = NoSizes
    /\ scanPc = at
    /\ feedIdx = 1
    /\ feederPc = "off"
    /\ closerPc = "off"
    /\ spc = [w \in ScanWorkers |-> "off"]
    /\ sitem = [w \in ScanWorkers |-> NoItem]
    /\ walkStack = [w \in ScanWorkers |-> <<>>]
    /\ totalSize = [w \in ScanWorkers |-> 0]
    /\ scanResult = [Sizes |-> NoSizes, WarningCount |-> 0]
    /\ cancelNotice = FALSE
    /\ sentItems = {}
    /\ listedDirs = {}
    /\ visited = {}
    /\ counted = {}

\* The size scanner is not run.
ScannerOff ==
    /\ scanOpts = [ExcludeList |-> {}, MaxDepth |-> 0, NumCPU |-> 1]
    /\ ScannerReset("off")

\* The state FindFilesAndDirs starts from, at the given position.
FinderReset(at) ==
    /\ fileCache = <<>>
    /\ ctxDone = FALSE
    /\ dirQueue = <<>>
    /\ closed = FALSE
    /\ sendPanic = FALSE
    /\ senders = {}
    /\ processingWg = 0
    /\ workerWg = 0
    /\ matchedFiles = <<>>
    /\ matchedDirs = <<>>
    /\ resultsMu = 0
    /\ totalDirs = 0
    /\ skippedDirs = 0
    /\ mainPc = at
    /\ monitorPc = "off"
    /\ pc = Idle
    /\ wpath = NoPath
    /\ wents = NoPath
    /\ localFiles = NoPath
    /\ localDirs = NoPath
    /\ newCount = [w \in Workers |-> 0]
    /\ draining = [w \in Workers |-> FALSE]
    /\ listed = [d \in fs.dirs \cup {fs.root} |-> <<>>]
    /\ enqueued = EmptyBag
    /\ zeroHits = 0
    /\ closeCount = 0
    /\ recorded = EmptyBag
    /\ lateJobs = {}
    /\ cancelCalls = 0
    /\ notices = {}
    /\ updaterPc = "off"
    /\ trackerTotalDirs = 0
    /\ trackerProcessedDirs = 0
    /\ wtotal = [w \in Workers |-> 0]

\* The finder is used without the command around it.
NoArgs == [minSize |-> <<>>, maxSize |-> <<>>, excludePatterns |-> <<>>,
           pattern |-> "*"]

ExecOff ==
    /\ execPc = "off"
    /\ execArgs = NoArgs
    /\ execErr = ""

\* No call of ShouldExclude on its own was made.
FilterReset ==
    /\ exPath = <<>>
    /\ exResult = FALSE
    /\ exCalled = FALSE
    /\ gpc = [c \in Callers |-> "idle"]
    /\ gpath = [c \in Callers |-> <<>>]
    /\ gsize = [c \in Callers |-> 0]
    /\ gok = [c \in Callers |-> FALSE]

\* The statuses a request ends with: 200, or 0 for a request error.
StatusCodes == {0, 200}

\* stats.NewCollector
NewCollector ==
    [latencies |-> <<>>,
     statusCount |-> [c \in StatusCodes |-> 0],
     minLatency |-> 0,
     maxLatency |-> 0,
     firstLatency |-> TRUE,
     successes |-> 0,
     failures |-> 0]

StressPositions == {"recv", "ctx", "exec", "exited"}

\* The state RunStressTest starts from, at the given position.
StressReset(at) ==
    /\ stCtxDone = FALSE
    /\ sigPc = "off"
    /\ stJobs = 0
    /\ stJobsClosed = FALSE
    /\ stResults = <<>>
    /\ stResultsClosed = FALSE
    /\ stWg = 0
    /\ stFeedI = 0
    /\ stFeederPc = "off"
    /\ stCloserPc = "off"
    /\ stWorkers = [q \in StressPositions |-> 0]
    /\ stSending = {}
    /\ stBatch = <<>>
    /\ stCompleted = 0
    /\ collector = NewCollector
    /\ stMainPc = at
    /\ stProduced = 0
    /\ stRecordedIds = <<>>

\* No stress test is run.
StressOff ==
    /\ stArgs = [totalRequests |-> 1, concurrency |-> 1]
    /\ StressReset("off")

\* A path that holds no file.
Absent == <<"absent">>

\* processFile is not called.
ReplaceOff ==
    /\ rfPc = "off"
    /\ rfArgs = [oldText |-> <<>>, newText |-> <<>>, createBackup |-> FALSE]
    /\ rfOrig = <<>>
    /\ rfBak0 = Absent
    /\ rfFile = <<>>
    /\ rfBak = Absent
    /\ rfContent = <<>>
    /\ rfErr = ""

InitFinder ==
    /\ \E s \in Scenarios :
          /\ fs = s.tree
          /\ options = s.opts
          /\ ff = NewFileFinder(s.tree.root, s.pattern, s.opts)
    /\ FinderReset("start")
    /\ FilterReset
    /\ StressOff
    /\ ReplaceOff
    /\ ExecOff
    /\ ScannerOff

\* ---------------------------------------------------- FindFilesAndDirs
\* Lines 19-98: the progress updater is started when progress is shown, the
\* workers are started, the root is counted and the total published.
MainStart ==
    /\ mainPc = "start"
    /\ updaterPc' = IF ff.showProgress THEN "run" ELSE "off"
    /\ pc' = [w \in Workers |-> IF w <= ff.maxWorkers THEN "recv" ELSE "off"]
    /\ workerWg' = ff.maxWorkers
    /\ totalDirs' = totalDirs + 1
    /\ trackerTotalDirs' = 1
    /\ mainPc' = "add"
    /\ UNCHANGED <<frame1, histVars, trackerProcessedDirs, wtotal, fileCache, ctxDone, dirQueue, closed, sendPanic,
                   senders, processingWg, matchedFiles, matchedDirs, resultsMu,
                   skippedDirs, monitorPc, wpath, wents, localFiles, localDirs,
                   newCount, draining, listed, enqueued, zeroHits, closeCount>>

\* Line 99: processingWg.Add(1)
MainAdd ==
    /\ mainPc = "add"
    /\ processingWg' = processingWg + 1
    /\ mainPc' = "send"
    /\ UNCHANGED <<frame, fileCache, ctxDone, dirQueue, closed, sendPanic,
                   senders, workerWg, matchedFiles, matchedDirs, resultsMu,
                   totalDirs, skippedDirs, monitorPc, pc, wpath, wents,
                   localFiles, localDirs, newCount, draining, listed, enqueued,
                   zeroHits, closeCount>>

\* Line 100: dirQueue <- ff.basePath (a blocking send)
MainSend ==
    /\ mainPc = "send"
    /\ Len(dirQueue) < QueueCap
    /\ dirQueue' = Append(dirQueue, ff.basePath)
    /\ enqueued' = enqueued (+) SetToBag({ff.basePath})
    /\ mainPc' = "monitor"
    /\ UNCHANGED <<frame, fileCache, ctxDone, closed, sendPanic, senders,
                   processingWg, workerWg, matchedFiles, matchedDirs, resultsMu,
                   totalDirs, skippedDirs, monitorPc, pc, wpath, wents,
                   localFiles, localDirs, newCount, draining, listed, zeroHits,
                   closeCount>>

\* Lines 103-106: the monitor goroutine is started.
MainMonitor ==
    /\ mainPc = "monitor"
    /\ monitorPc' = "wait"
    /\ mainPc' = "wait"
    /\ UNCHANGED <<frame, fileCache, ctxDone, dirQueue, closed, sendPanic,
                   senders, processingWg, workerWg, matchedFiles, matchedDirs,
                   resultsMu, totalDirs, skippedDirs, pc, wpath, wents,
                   localFiles, localDirs, newCount, draining, listed, enqueued,
                   zeroHits, closeCount>>

MainReturnEarly ==
    /\ mainPc = "wait"
    /\ mainPc' = "returned"
    /\ notices' = IF skippedDirs > 0 THEN {"unreadable"} ELSE {}
    /\ UNCHANGED <<frame0, recorded, lateJobs, cancelCalls,
                   fileCache, ctxDone, dirQueue, closed, sendPanic,
                   senders, processingWg, workerWg, matchedFiles, matchedDirs,
                   resultsMu, totalDirs, skippedDirs, monitorPc, pc, wpath,
                   wents, localFiles, localDirs, newCount, draining, listed,
                   enqueued, zeroHits, closeCount>>

\* Lines 109-120: workerWg.Wait() returns, the results are returned.
MainReturn ==
    /\ mainPc = "wait"
    /\ workerWg = 0
    /\ mainPc' = "returned"
    /\ notices' = IF skippedDirs > 0 THEN {"unreadable"} ELSE {}
    /\ UNCHANGED <<frame0, recorded, lateJobs, cancelCalls,
                   fileCache, ctxDone, dirQueue, closed, sendPanic,
                   senders, processingWg, workerWg, matchedFiles, matchedDirs,
                   resultsMu, totalDirs, skippedDirs, monitorPc, pc, wpath,
                   wents, localFiles, localDirs, newCount, draining, listed,
                   enqueued, zeroHits, closeCount>>

\* Lines 24-33: the progress updater leaves its loop when it finds the
\* context cancelled.  (Its other case prints the counters and changes
\* nothing.)
UpdaterExit ==
    /\ updaterPc = "run"
    /\ ctxDone
    /\ updaterPc' = "done"
    /\ UNCHANGED <<frame1, histVars, trackerTotalDirs, trackerProcessedDirs,
                   wtotal, finderState0>>

MonitorWaitEarly ==
    /\ monitorPc = "wait"
    /\ monitorPc' = "close"
    /\ UNCHANGED <<frame, fileCache, ctxDone, dirQueue, closed, sendPanic,
                   senders, processingWg, workerWg, matchedFiles, matchedDirs,
                   resultsMu, totalDirs, skippedDirs, mainPc, pc, wpath, wents,
                   localFiles, localDirs, newCount, draining, listed, enqueued,
                   zeroHits, closeCount>>

\* Line 104: processingWg.Wait() returns once the counter is zero.
MonitorWait ==
    /\ monitorPc = "wait"
    /\ processingWg = 0
    /\ monitorPc' = "close"
    /\ UNCHANGED <<frame, fileCache, ctxDone, dirQueue, closed, sendPanic,
                   senders, processingWg, workerWg, matchedFiles, matchedDirs,
                   resultsMu, totalDirs, skippedDirs, mainPc, pc, wpath, wents,
                   localFiles, localDirs, newCount, draining, listed, enqueued,
                   zeroHits, closeCount>>

\* Line 105: close(dirQueue)
MonitorClose ==
    /\ monitorPc = "close"
    /\ closed' = TRUE
    /\ closeCount' = closeCount + 1
    /\ monitorPc' = "done"
    /\ UNCHANGED <<frame, fileCache, ctxDone, dirQueue, sendPanic, senders,
                   processingWg, workerWg, matchedFiles, matchedDirs, resultsMu,
                   totalDirs, skippedDirs, mainPc, pc, wpath, wents, localFiles,
                   localDirs, newCount, draining, listed, enqueued, zeroHits>>

\* -------------------------------------------------------- the worker loop
\* Where a worker goes once the entry at the head of `rest` is dealt with.
NextEntryPc(rest) == IF rest = <<>> THEN "check" ELSE "entry"

WorkerRecvNoFinalFlush(w) ==
    /\ pc[w] = "recv"
    /\ \/ /\ dirQueue # <<>>
          /\ wpath' = [wpath EXCEPT ![w] = Head(dirQueue)]
          /\ dirQueue' = Tail(dirQueue)
          /\ pc' = [pc EXCEPT ![w] = "readdir"]
          /\ UNCHANGED draining
       \/ /\ dirQueue = <<>>
          /\ closed
          /\ draining' = [draining EXCEPT ![w] = TRUE]
          /\ pc' = [pc EXCEPT ![w] = "exit"]
          /\ UNCHANGED <<wpath, dirQueue>>
    /\ lateJobs' = IF dirQueue # <<>> /\ ctxDone
                   THEN lateJobs \cup {Head(dirQueue)} ELSE lateJobs
    /\ UNCHANGED <<frame0, recorded, cancelCalls, notices,
                   fileCache, ctxDone, closed, sendPanic, senders,
                   processingWg, workerWg, matchedFiles, matchedDirs, resultsMu,
                   totalDirs, skippedDirs, mainPc, monitorPc, wents, localFiles,
                   localDirs, newCount, listed, enqueued, zeroHits, closeCount>>

\* Line 82: a job is received from dirQueue, or the loop ends because the
\* queue is closed and empty (the deferred flush of line 80 then runs).
WorkerRecv(w) ==
    /\ pc[w] = "recv"
    /\ \/ /\ dirQueue # <<>>
          /\ wpath' = [wpath EXCEPT ![w] = Head(dirQueue)]
          /\ dirQueue' = Tail(dirQueue)
          /\ pc' = [pc EXCEPT ![w] = "readdir"]
          /\ UNCHANGED draining
       \/ /\ dirQueue = <<>>
          /\ closed
          /\ draining' = [draining EXCEPT ![w] = TRUE]
          /\ pc' = [pc EXCEPT ![w] = "lock"]
          /\ UNCHANGED <<wpath, dirQueue>>
    /\ lateJobs' = IF dirQueue # <<>> /\ ctxDone
                   THEN lateJobs \cup {Head(dirQueue)} ELSE lateJobs
    /\ UNCHANGED <<frame0, recorded, cancelCalls, notices,
                   fileCache, ctxDone, closed, sendPanic, senders,
                   processingWg, workerWg, matchedFiles, matchedDirs, resultsMu,
                   totalDirs, skippedDirs, mainPc, monitorPc, wents, localFiles,
                   localDirs, newCount, listed, enqueued, zeroHits, closeCount>>

WorkerReadDirUncounted(w) ==
    /\ pc[w] = "readdir"
    /\ listed' = [listed EXCEPT ![wpath[w]] = Append(@, w)]
    /\ IF ReadDirErr(fs, wpath[w])
       THEN /\ skippedDirs' = skippedDirs
            /\ pc' = [pc EXCEPT ![w] = "check"]
            /\ UNCHANGED wents
            /\ UNCHANGED trackerProcessedDirs
       ELSE /\ wents' = [wents EXCEPT ![w] = ReadDir(fs, wpath[w])]
            /\ pc' = [pc EXCEPT ![w] = NextEntryPc(ReadDir(fs, wpath[w]))]
            /\ trackerProcessedDirs' = trackerProcessedDirs + 1
            /\ UNCHANGED skippedDirs
    /\ UNCHANGED <<frame1, histVars, updaterPc, trackerTotalDirs, wtotal,
                   fileCache, ctxDone, dirQueue, closed, sendPanic,
                   senders, processingWg, workerWg, matchedFiles, matchedDirs,
                   resultsMu, totalDirs, mainPc, monitorPc, wpath, localFiles,
                   localDirs, newCount, draining, enqueued, zeroHits,
                   closeCount>>

\* processDir, lines 124-130: the directory is listed; a failure counts one
\* skipped directory and ends the job, a success counts one processed
\* directory in the tracker.
WorkerReadDir(w) ==
    /\ pc[w] = "readdir"
    /\ listed' = [listed EXCEPT ![wpath[w]] = Append(@, w)]
    /\ IF ReadDirErr(fs, wpath[w])
       THEN /\ skippedDirs' = skippedDirs + 1
            /\ pc' = [pc EXCEPT ![w] = "check"]
            /\ UNCHANGED wents
            /\ UNCHANGED trackerProcessedDirs
       ELSE /\ wents' = [wents EXCEPT ![w] = ReadDir(fs, wpath[w])]
            /\ pc' = [pc EXCEPT ![w] = NextEntryPc(ReadDir(fs, wpath[w]))]
            /\ trackerProcessedDirs' = trackerProcessedDirs + 1
            /\ UNCHANGED skippedDirs
    /\ UNCHANGED <<frame1, histVars, updaterPc, trackerTotalDirs, wtotal,
                   fileCache, ctxDone, dirQueue, closed, sendPanic,
                   senders, processingWg, workerWg, matchedFiles, matchedDirs,
                   resultsMu, totalDirs, mainPc, monitorPc, wpath, localFiles,
                   localDirs, newCount, draining, enqueued, zeroHits,
                   closeCount>>

ToBeQueuedUnfiltered(f, t, fullPath) == IsDir(t, fullPath)

\* processDir, lines 136-140 and 165: an entry is queued for traversal when
\* it is not excluded and is a directory.
ToBeQueued(f, t, fullPath) == ~ShouldExclude(f, fullPath) /\ IsDir(t, fullPath)

\* processDir, lines 132-162: the entry at the head of the listing is
\* filtered and, when it matches, appended to the local batch.  A directory
\* that is not excluded goes on to be queued.
WorkerEntry(w) ==
    /\ pc[w] = "entry"
    /\ LET name == Head(wents[w])
           fullPath == Join(wpath[w], name)
           isDir == IsDir(fs, fullPath)
           excluded == ShouldExclude(ff, fullPath)
           matches == ~excluded /\ MatchesPattern(ff, name)
       IN  /\ localDirs' =
                 IF matches /\ isDir
                 THEN [localDirs EXCEPT ![w] = Append(@, fullPath)]
                 ELSE localDirs
           /\ localFiles' =
                 IF matches /\ ~isDir /\ ShouldAdd(ff, fs, fileCache, fullPath)
                 THEN [localFiles EXCEPT ![w] = Append(@, fullPath)]
                 ELSE localFiles
           /\ fileCache' =
                 IF matches /\ ~isDir /\ SizeLookedUp(ff, fullPath)
                 THEN CacheAfter(fs, fileCache, fullPath)
                 ELSE fileCache
           /\ recorded' =
                 IF matches /\ (isDir \/ ShouldAdd(ff, fs, fileCache, fullPath))
                 THEN recorded (+) SetToBag({fullPath})
                 ELSE recorded
           /\ IF ToBeQueued(ff, fs, fullPath)
              THEN /\ pc' = [pc EXCEPT ![w] = "ctx"]
                   /\ UNCHANGED wents
              ELSE /\ wents' = [wents EXCEPT ![w] = Tail(@)]
                   /\ pc' = [pc EXCEPT ![w] = NextEntryPc(Tail(wents[w]))]
    /\ UNCHANGED <<frame0, lateJobs, cancelCalls, notices,
                   ctxDone, dirQueue, closed, sendPanic, senders,
                   processingWg, workerWg, matchedFiles, matchedDirs, resultsMu,
                   totalDirs, skippedDirs, mainPc, monitorPc, wpath, newCount,
                   draining, listed, enqueued, zeroHits, closeCount>>

WorkerCtxInverted(w) ==
    /\ pc[w] = "ctx"
    /\ IF ~ctxDone
       THEN /\ wents' = [wents EXCEPT ![w] = <<>>]
            /\ pc' = [pc EXCEPT ![w] = "check"]
            /\ UNCHANGED totalDirs
       ELSE /\ totalDirs' = totalDirs + 1
            /\ pc' = [pc EXCEPT ![w] = "load"]
            /\ UNCHANGED wents
    /\ UNCHANGED <<frame, fileCache, ctxDone, dirQueue, closed, sendPanic,
                   senders, processingWg, workerWg, matchedFiles, matchedDirs,
                   resultsMu, skippedDirs, mainPc, monitorPc, wpath, localFiles,
                   localDirs, newCount, draining, listed, enqueued, zeroHits,
                   closeCount>>

\* processDir, lines 166-171: a cancelled context ends the job at the first
\* directory met; otherwise the directory is counted.
WorkerCtx(w) ==
    /\ pc[w] = "ctx"
    /\ IF ctxDone
       THEN /\ wents' = [wents EXCEPT ![w] = <<>>]
            /\ pc' = [pc EXCEPT ![w] = "check"]
            /\ UNCHANGED totalDirs
       ELSE /\ totalDirs' = totalDirs + 1
            /\ pc' = [pc EXCEPT ![w] = "load"]
            /\ UNCHANGED wents
    /\ UNCHANGED <<frame, fileCache, ctxDone, dirQueue, closed, sendPanic,
                   senders, processingWg, workerWg, matchedFiles, matchedDirs,
                   resultsMu, skippedDirs, mainPc, monitorPc, wpath, localFiles,
                   localDirs, newCount, draining, listed, enqueued, zeroHits,
                   closeCount>>

\* processDir, line 171: atomic.LoadInt64(totalDirs), the argument of
\* SetTotalDirs.
WorkerLoadTotal(w) ==
    /\ pc[w] = "load"
    /\ wtotal' = [wtotal EXCEPT ![w] = totalDirs]
    /\ pc' = [pc EXCEPT ![w] = "store"]
    /\ UNCHANGED <<frame1, histVars, updaterPc, trackerTotalDirs,
                   trackerProcessedDirs, finderData, wents>>

\* processDir, line 171, and ProgressTracker.SetTotalDirs, lines 240-242:
\* the loaded total is stored in the tracker.
SetTotalDirs(w) ==
    /\ pc[w] = "store"
    /\ trackerTotalDirs' = wtotal[w]
    /\ wtotal' = [wtotal EXCEPT ![w] = 0]
    /\ pc' = [pc EXCEPT ![w] = "add"]
    /\ UNCHANGED <<frame1, histVars, updaterPc, trackerProcessedDirs,
                   finderData, wents>>

WorkerAddSkipped(w) ==
    /\ pc[w] = "add"
    /\ pc' = [pc EXCEPT ![w] = "send"]
    /\ UNCHANGED <<frame, fileCache, ctxDone, dirQueue, closed, sendPanic,
                   senders, processingWg, workerWg, matchedFiles, matchedDirs,
                   resultsMu, totalDirs, skippedDirs, mainPc, monitorPc, wpath,
                   wents, localFiles, localDirs, newCount, draining, listed,
                   enqueued, zeroHits, closeCount>>

\* processDir, line 173: wg.Add(1)
WorkerAdd(w) ==
    /\ pc[w] = "add"
    /\ processingWg' = processingWg + 1
    /\ pc' = [pc EXCEPT ![w] = "send"]
    /\ UNCHANGED <<frame, fileCache, ctxDone, dirQueue, closed, sendPanic,
                   senders, workerWg, matchedFiles, matchedDirs, resultsMu,
                   totalDirs, skippedDirs, mainPc, monitorPc, wpath, wents,
                   localFiles, localDirs, newCount, draining, listed, enqueued,
                   zeroHits, closeCount>>

WorkerSendBlocking(w) ==
    /\ pc[w] = "send"
    /\ Len(dirQueue) < QueueCap
    /\ dirQueue' = Append(dirQueue, Join(wpath[w], Head(wents[w])))
    /\ enqueued' = enqueued (+) SetToBag({Join(wpath[w], Head(wents[w]))})
    /\ sendPanic' = (sendPanic \/ closed)
    /\ wents' = [wents EXCEPT ![w] = Tail(@)]
    /\ pc' = [pc EXCEPT ![w] = NextEntryPc(Tail(wents[w]))]
    /\ UNCHANGED <<frame, fileCache, ctxDone, closed, senders, processingWg,
                   workerWg, matchedFiles, matchedDirs, resultsMu, totalDirs,
                   skippedDirs, mainPc, monitorPc, wpath, localFiles, localDirs,
                   newCount, draining, listed, zeroHits, closeCount>>

\* processDir, lines 179-185: a non-blocking send; when the queue is full
\* the path is handed to a goroutine that sends it.
WorkerSend(w) ==
    /\ pc[w] = "send"
    /\ IF Len(dirQueue) < QueueCap
       THEN /\ dirQueue' = Append(dirQueue, Join(wpath[w], Head(wents[w])))
            /\ enqueued' = enqueued (+) SetToBag({Join(wpath[w], Head(wents[w]))})
            /\ UNCHANGED senders
       ELSE /\ senders' = senders \cup {Join(wpath[w], Head(wents[w]))}
            /\ UNCHANGED <<dirQueue, enqueued>>
    /\ sendPanic' = (sendPanic \/ closed)
    /\ wents' = [wents EXCEPT ![w] = Tail(@)]
    /\ pc' = [pc EXCEPT ![w] = NextEntryPc(Tail(wents[w]))]
    /\ UNCHANGED <<frame, fileCache, ctxDone, closed, processingWg, workerWg,
                   matchedFiles, matchedDirs, resultsMu, totalDirs, skippedDirs,
                   mainPc, monitorPc, wpath, localFiles, localDirs, newCount,
                   draining, listed, zeroHits, closeCount>>

\* processDir, lines 182-184: a fallback goroutine sends its path (a blocking
\* send; on a closed channel it panics).
SenderSend(p) ==
    /\ p \in senders
    /\ closed \/ Len(dirQueue) < QueueCap
    /\ IF closed
       THEN /\ sendPanic' = TRUE
            /\ UNCHANGED <<dirQueue, enqueued>>
       ELSE /\ dirQueue' = Append(dirQueue, p)
            /\ enqueued' = enqueued (+) SetToBag({p})
            /\ UNCHANGED sendPanic
    /\ senders' = senders \ {p}
    /\ UNCHANGED <<frame, fileCache, ctxDone, closed, processingWg, workerWg,
                   matchedFiles, matchedDirs, resultsMu, totalDirs, skippedDirs,
                   mainPc, monitorPc, pc, wpath, wents, localFiles, localDirs,
                   newCount, draining, listed, zeroHits, closeCount>>

\* Line 86: the batch is flushed when it holds more than the threshold.
WorkerCheck(w) ==
    /\ pc[w] = "check"
    /\ pc' = [pc EXCEPT ![w] =
                IF Len(localFiles[w]) + Len(localDirs[w]) > FlushThreshold
                THEN "lock" ELSE "done"]
    /\ UNCHANGED <<frame, fileCache, ctxDone, dirQueue, closed, sendPanic,
                   senders, processingWg, workerWg, matchedFiles, matchedDirs,
                   resultsMu, totalDirs, skippedDirs, mainPc, monitorPc, wpath,
                   wents, localFiles, localDirs, newCount, draining, listed,
                   enqueued, zeroHits, closeCount>>

\* Where a worker goes after flush(): out of the loop's iteration, or out
\* of the goroutine when the flush was the deferred one.
AfterFlush(w) == IF draining[w] THEN "exit" ELSE "done"

FlushLockNoWait(w) ==
    /\ pc[w] = "lock"
    /\ IF Len(localFiles[w]) = 0 /\ Len(localDirs[w]) = 0
       THEN /\ pc' = [pc EXCEPT ![w] = AfterFlush(w)]
            /\ UNCHANGED resultsMu
       ELSE /\ resultsMu' = w
            /\ pc' = [pc EXCEPT ![w] = "merge"]
    /\ UNCHANGED <<frame, fileCache, ctxDone, dirQueue, closed, sendPanic,
                   senders, processingWg, workerWg, matchedFiles, matchedDirs,
                   totalDirs, skippedDirs, mainPc, monitorPc, wpath, wents,
                   localFiles, localDirs, newCount, draining, listed, enqueued,
                   zeroHits, closeCount>>

\* flush, lines 62-63: nothing to do for an empty batch, else the mutex is
\* taken.
FlushLock(w) ==
    /\ pc[w] = "lock"
    /\ IF Len(localFiles[w]) = 0 /\ Len(localDirs[w]) = 0
       THEN /\ pc' = [pc EXCEPT ![w] = AfterFlush(w)]
            /\ UNCHANGED resultsMu
       ELSE /\ resultsMu = 0
            /\ resultsMu' = w
            /\ pc' = [pc EXCEPT ![w] = "merge"]
    /\ UNCHANGED <<frame, fileCache, ctxDone, dirQueue, closed, sendPanic,
                   senders, processingWg, workerWg, matchedFiles, matchedDirs,
                   totalDirs, skippedDirs, mainPc, monitorPc, wpath, wents,
                   localFiles, localDirs, newCount, draining, listed, enqueued,
                   zeroHits, closeCount>>

\* flush, lines 64-67: the batch is appended to the shared results, the new
\* count is read and the mutex released.
FlushMerge(w) ==
    /\ pc[w] = "merge"
    /\ matchedFiles' = matchedFiles \o localFiles[w]
    /\ matchedDirs' = matchedDirs \o localDirs[w]
    /\ newCount' = [newCount EXCEPT ![w] = Len(matchedFiles') + Len(matchedDirs')]
    /\ resultsMu' = 0
    /\ pc' = [pc EXCEPT ![w] = "limit"]
    /\ UNCHANGED <<frame, fileCache, ctxDone, dirQueue, closed, sendPanic,
                   senders, processingWg, workerWg, totalDirs, skippedDirs,
                   mainPc, monitorPc, wpath, wents, localFiles, localDirs,
                   draining, listed, enqueued, zeroHits, closeCount>>

FlushLimitStrict(w) ==
    /\ pc[w] = "limit"
    /\ ctxDone' = (ctxDone \/ newCount[w] > ff.maxResults)
    /\ localFiles' = [localFiles EXCEPT ![w] = <<>>]
    /\ localDirs' = [localDirs EXCEPT ![w] = <<>>]
    /\ pc' = [pc EXCEPT ![w] = AfterFlush(w)]
    /\ cancelCalls' = IF newCount[w] > ff.maxResults
                      THEN cancelCalls + 1 ELSE cancelCalls
    /\ UNCHANGED <<frame0, recorded, lateJobs, notices,
                   fileCache, dirQueue, closed, sendPanic, senders,
                   processingWg, workerWg, matchedFiles, matchedDirs, resultsMu,
                   totalDirs, skippedDirs, mainPc, monitorPc, wpath, wents,
                   newCount, draining, listed, enqueued, zeroHits, closeCount>>

FlushLimitKeepsBatch(w) ==
    /\ pc[w] = "limit"
    /\ ctxDone' = (ctxDone \/ newCount[w] >= ff.maxResults)
    /\ pc' = [pc EXCEPT ![w] = IF draining[w] THEN "exit" ELSE "done"]
    /\ cancelCalls' = IF newCount[w] >= ff.maxResults
                      THEN cancelCalls + 1 ELSE cancelCalls
    /\ UNCHANGED <<frame0, recorded, lateJobs, notices,
                   fileCache, dirQueue, closed, sendPanic, senders,
                   processingWg, workerWg, matchedFiles, matchedDirs, resultsMu,
                   totalDirs, skippedDirs, mainPc, monitorPc, wpath, wents,
                   localFiles, localDirs, newCount, draining, listed, enqueued,
                   zeroHits, closeCount>>

\* flush, lines 70-75: the context is cancelled when the count has reached
\* maxResults; the local batch is emptied.
FlushLimit(w) ==
    /\ pc[w] = "limit"
    /\ ctxDone' = (ctxDone \/ newCount[w] >= ff.maxResults)
    /\ localFiles' = [localFiles EXCEPT ![w] = <<>>]
    /\ localDirs' = [localDirs EXCEPT ![w] = <<>>]
    /\ pc' = [pc EXCEPT ![w] = AfterFlush(w)]
    /\ cancelCalls' = IF newCount[w] >= ff.maxResults
                      THEN cancelCalls + 1 ELSE cancelCalls
    /\ UNCHANGED <<frame0, recorded, lateJobs, notices,
                   fileCache, dirQueue, closed, sendPanic, senders,
                   processingWg, workerWg, matchedFiles, matchedDirs, resultsMu,
                   totalDirs, skippedDirs, mainPc, monitorPc, wpath, wents,
                   newCount, draining, listed, enqueued, zeroHits, closeCount>>

\* Line 91: processingWg.Done()
WorkerDone(w) ==
    /\ pc[w] = "done"
    /\ processingWg' = processingWg - 1
    /\ zeroHits' = IF processingWg' = 0 THEN zeroHits + 1 ELSE zeroHits
    /\ wpath' = [wpath EXCEPT ![w] = <<>>]
    /\ pc' = [pc EXCEPT ![w] = "recv"]
    /\ UNCHANGED <<frame, fileCache, ctxDone, dirQueue, closed, sendPanic,
                   senders, workerWg, matchedFiles, matchedDirs, resultsMu,
                   totalDirs, skippedDirs, mainPc, monitorPc, wents, localFiles,
                   localDirs, newCount, draining, listed, enqueued, closeCount>>

\* Line 55: the deferred workerWg.Done() as the goroutine ends.
WorkerExit(w) ==
    /\ pc[w] = "exit"
    /\ workerWg' = workerWg - 1
    /\ pc' = [pc EXCEPT ![w] = "exited"]
    /\ UNCHANGED <<frame, fileCache, ctxDone, dirQueue, closed, sendPanic,
                   senders, processingWg, matchedFiles, matchedDirs, resultsMu,
                   totalDirs, skippedDirs, mainPc, monitorPc, wpath, wents,
                   localFiles, localDirs, newCount, draining, listed, enqueued,
                   zeroHits, closeCount>>

\* One step of worker w.
WorkerStep(w) ==
    \/ WorkerRecv(w)
    \/ WorkerReadDir(w)
    \/ WorkerEntry(w)
    \/ WorkerCtx(w)
    \/ WorkerLoadTotal(w)
    \/ SetTotalDirs(w)
    \/ WorkerAdd(w)
    \/ WorkerSend(w)
    \/ WorkerCheck(w)
    \/ FlushLock(w)
    \/ FlushMerge(w)
    \/ FlushLimit(w)
    \/ WorkerDone(w)
    \/ WorkerExit(w)

\* ------------------------------------------------ ShouldExclude on its own
\* Paths of up to n components.
PathsUpTo(n) == UNION {[1..k -> Names] : k \in 1..n}

\* The exclusion options a FileFinder is built with.
FilterOptions ==
    {[DefaultOptions EXCEPT !.ExcludeDirs = e, !.ExcludePatterns = re] :
        e \in SUBSET {"LIB", "lib", "src"},
        re \in {<<>>, <<"y\\.md$">>, <<"/lib/", "y\\.md$">>}}

InitFilter ==
    /\ \E o \in FilterOptions :
          /\ fs = Tree1
          /\ options = o
          /\ ff = NewFileFinder(Tree1.root, PatternAll, o)
    /\ FinderReset("off")
    /\ FilterReset
    /\ StressOff
    /\ ReplaceOff
    /\ ExecOff
    /\ ScannerOff

\* ff.ShouldExclude(p) is called and its result kept.
CallShouldExclude(p) ==
    /\ exPath' = p
    /\ exResult' = ShouldExclude(ff, p)
    /\ exCalled' = TRUE
    /\ UNCHANGED <<fs, options, ff, execVars, cacheCallVars, scannerVars, finderState,
                   histVars, progressVars, stressVars, replaceVars>>

NextFilter == \E p \in PathsUpTo(MaxPathLen) : CallShouldExclude(p)

vars == finderVars

Next ==
    \/ MainStart
    \/ MainAdd
    \/ MainSend
    \/ MainMonitor
    \/ MainReturn
    \/ MonitorWait
    \/ MonitorClose
    \/ \E w \in Workers : WorkerStep(w)
    \/ \E p \in senders : SenderSend(p)
    \/ UpdaterExit

Init == InitFinder

Spec == Init /\ [][Next]_vars

\* The Go scheduler does not leave every goroutine that can take a step
\* waiting for ever: while some step is possible, one is taken.
Fairness == WF_vars(Next)

FairSpec == Spec /\ Fairness

\* ======================================================== check-folder-size
\* File systems for the size scanner.  STree1 has an excluded name at the
\* top level and one level down, and a directory two levels below a
\* top-level child.
STree1 ==
    [root |-> <<"src">>,
     dirs |-> {<<"src">>, <<"src", "lib">>, <<"src", "src">>,
               <<"src", "src", "lib">>, <<"src", "src", "src">>,
               <<"src", "src", "src", "src">>},
     files |-> {<<"src", "x.go">>, <<"src", "lib", "x.go">>,
                <<"src", "src", "lib", "y.md">>, <<"src", "src", "src", "x.go">>,
                <<"src", "src", "src", "src", "y.md">>},
     links |-> {},
     target |-> <<>>,
     unreadable |-> {},
     nostat |-> {},
     big |-> {<<"src", "x.go">>, <<"src", "lib", "x.go">>,
              <<"src", "src", "lib", "y.md">>,
              <<"src", "src", "src", "src", "y.md">>}]

\* The root itself bears an excluded name; a link at the top level points at
\* a file, one points nowhere, and a link further down points back at the
\* root.
STree2 ==
    [root |-> <<"lib">>,
     dirs |-> {<<"lib">>, <<"lib", "src">>},
     files |-> {<<"lib", "src", "x.go">>},
     links |-> {<<"lib", "LIB">>, <<"lib", "y.md">>, <<"lib", "src", "lib">>},
     target |-> [l \in {<<"lib", "LIB">>, <<"lib", "y.md">>,
                        <<"lib", "src", "lib">>} |->
                    CASE l = <<"lib", "LIB">> -> <<"lib", "src", "x.go">>
                      [] l = <<"lib", "y.md">> -> <<>>
                      [] OTHER -> <<"lib">>],
     unreadable |-> {},
     nostat |-> {},
     big |-> {<<"lib", "src", "x.go">>}]

\* Directories that cannot be listed, files that cannot be examined.
STree3 ==
    [root |-> <<"src">>,
     dirs |-> {<<"src">>, <<"src", "lib">>, <<"src", "src">>,
               <<"src", "src", "lib">>},
     files |-> {<<"src", "x.go">>, <<"src", "src", "x.go">>,
                <<"src", "src", "y.md">>},
     links |-> {},
     target |-> <<>>,
     unreadable |-> {<<"src", "lib">>, <<"src", "src", "lib">>},
     nostat |-> {<<"src", "x.go">>, <<"src", "src", "y.md">>},
     big |-> {<<"src", "src", "x.go">>}]

\* A root that cannot be listed.
STree4 ==
    [root |-> <<"src">>,
     dirs |-> {},
     files |-> {},
     links |-> {},
     target |-> <<>>,
     unreadable |-> {<<"src">>},
     nostat |-> {},
     big |-> {}]

STrees == {STree1, STree2, STree3, STree4}

\* The runs of the size scanner that are explored: every tree on one CPU
\* with and without an excluded name and a depth limit; on more CPUs, the
\* scans that exclude a name, that meet links and that meet errors.
ScanScenarios ==
    {[tree |-> t, opts |-> [ExcludeList |-> e, MaxDepth |-> d, NumCPU |-> 1]] :
        t \in STrees, e \in {{}, {"lib"}}, d \in {0, 1}}
    \cup
    {[tree |-> x.t,
      opts |-> [ExcludeList |-> x.e, MaxDepth |-> x.d, NumCPU |-> x.c]] :
        x \in {[t |-> STree1, e |-> {"lib"}, d |-> 0, c |-> NumCPU],
                [t |-> STree1, e |-> {"lib"}, d |-> 1, c |-> NumCPU],
                [t |-> STree1, e |-> {}, d |-> 0, c |-> 2],
                [t |-> STree2, e |-> {"lib"}, d |-> 0, c |-> NumCPU],
                [t |-> STree3, e |-> {}, d |-> 0, c |-> 2]}}

\* What the finder leaves alone when the size scanner runs.
FinderOff ==
    /\ options = DefaultOptions
    /\ ff = NewFileFinder(fs.root, PatternAll, DefaultOptions)
    /\ FinderReset("off")
    /\ FilterReset
    /\ StressOff
    /\ ReplaceOff
    /\ ExecOff

InitScanner ==
    /\ \E s \in ScanScenarios :
          /\ fs = s.tree
          /\ scanOpts = s.opts
    /\ ScannerReset("start")
    /\ FinderOff

\* What no step of the size scanner changes.
outside ==
    <<fs, options, ff, execVars, filterVars, cacheCallVars, finderState, histVars,
      progressVars, stressVars, replaceVars, scanOpts>>

Min(a, b) == IF a < b THEN a ELSE b

Last(p) == p[Len(p)]

\* os.Stat(p), which follows a symbolic link: whether it succeeds, and the
\* size it reports.  (No modelled link that is examined this way points at
\* a directory.)
Stat(t, p) ==
    LET q == IF p \in t.links THEN t.target[p] ELSE p
    IN  IF q \in t.files \ t.nostat
        THEN [ok |-> TRUE, size |-> FileSize(t, q)]
        ELSE [ok |-> FALSE, size |-> 0]

\* Lines 53-76: the entries of the parent folder whose name is not in the
\* exclude map, as work items.
WorkItemsOf(t, o) ==
    LET kept == SelectSeq(ReadDir(t, t.root),
                          LAMBDA n : n \notin o.ExcludeList)
    IN  [i \in 1..Len(kept) |->
            [Name |-> kept[i],
             Path |-> Join(t.root, kept[i]),
             IsDir |-> IsDir(t, Join(t.root, kept[i]))]]

\* Line 89: the capacity of jobs and of results.
bufSize == numWorkers * 2

\* ------------------------------------------------- GetSizesOfSubfolders
\* Lines 50-144: the parent folder is listed; a failure returns at once with
\* one warning.  The kept entries become the work items; with none the scan
\* returns, otherwise the workers are started.  Lines 146-162 then start the
\* job feeder and the goroutine closing results.
ScanStart ==
    /\ scanPc = "start"
    /\ listedDirs' = listedDirs \cup {fs.root}
    /\ IF fs.root \notin fs.dirs \/ fs.root \in fs.unreadable
       THEN /\ scanResult' = [Sizes |-> NoSizes, WarningCount |-> 1]
            /\ scanPc' = "returned"
            /\ UNCHANGED <<workItems, numWorkers, wg, spc, feederPc, closerPc>>
       ELSE LET items == WorkItemsOf(fs, scanOpts)
            IN  /\ workItems' = items
                /\ IF Len(items) = 0
                   THEN /\ scanResult' = [Sizes |-> NoSizes, WarningCount |-> 0]
                        /\ scanPc' = "returned"
                        /\ UNCHANGED <<numWorkers, wg, spc, feederPc, closerPc>>
                   ELSE /\ numWorkers' = Min(scanOpts.NumCPU, Len(items))
                        /\ wg' = numWorkers'
                        /\ spc' = [w \in ScanWorkers |->
                                      IF w <= numWorkers' THEN "recv" ELSE "off"]
                        /\ feederPc' = "feed"
                        /\ closerPc' = "wait"
                        /\ scanPc' = "gather"
                        /\ UNCHANGED scanResult
    /\ UNCHANGED <<outside, scanCtxDone, jobs, jobsClosed, results,
                   resultsClosed, warningCount, subfolderSizes, feedIdx, sitem,
                   walkStack, totalSize, cancelNotice, sentItems, visited,
                   counted>>

\* Lines 165-167: one result is taken from results and stored under its name.
ScanGather ==
    /\ scanPc = "gather"
    /\ results # <<>>
    /\ LET r == Head(results)
       IN  subfolderSizes' =
               [n \in DOMAIN subfolderSizes \cup {r.Name} |->
                   IF n = r.Name THEN r.Size ELSE subfolderSizes[n]]
    /\ results' = Tail(results)
    /\ UNCHANGED <<outside, scanCtxDone, workItems, numWorkers, jobs, jobsClosed,
                   resultsClosed, wg, warningCount, scanPc, feedIdx, feederPc,
                   closerPc, spc, sitem, walkStack, totalSize, scanResult,
                   cancelNotice, sentItems, listedDirs, visited, counted>>

\* Line 165: the range over results ends once it is closed and drained.
ScanGatherEnd ==
    /\ scanPc = "gather"
    /\ results = <<>>
    /\ resultsClosed
    /\ scanPc' = "return"
    /\ UNCHANGED <<outside, scanCtxDone, workItems, numWorkers, jobs, jobsClosed,
                   results, resultsClosed, wg, warningCount, subfolderSizes,
                   feedIdx, feederPc, closerPc, spc, sitem, walkStack, totalSize,
                   scanResult, cancelNotice, sentItems, listedDirs, visited,
                   counted>>

\* Lines 173-180: a cancelled context is reported on stderr; the sizes and
\* the warning count are returned.
ScanReturn ==
    /\ scanPc = "return"
    /\ cancelNotice' = scanCtxDone
    /\ scanResult' = [Sizes |-> subfolderSizes, WarningCount |-> warningCount]
    /\ scanPc' = "returned"
    /\ UNCHANGED <<outside, scanCtxDone, workItems, numWorkers, jobs, jobsClosed,
                   results, resultsClosed, wg, warningCount, subfolderSizes,
                   feedIdx, feederPc, closerPc, spc, sitem, walkStack, totalSize,
                   sentItems, listedDirs, visited, counted>>

\* The caller's context is cancelled (a signal, a timeout) while the scan
\* runs.
ScanCancel ==
    /\ scanPc \in {"start", "gather", "return"}
    /\ ~scanCtxDone
    /\ scanCtxDone' = TRUE
    /\ UNCHANGED <<outside, workItems, numWorkers, jobs, jobsClosed, results,
                   resultsClosed, wg, warningCount, subfolderSizes, scanPc,
                   feedIdx, feederPc, closerPc, spc, sitem, walkStack, totalSize,
                   scanResult, cancelNotice, sentItems, listedDirs, visited,
                   counted>>

\* Lines 148-150: the feeder sends the next work item on jobs.
FeederSend ==
    /\ feederPc = "feed"
    /\ feedIdx <= Len(workItems)
    /\ Len(jobs) < bufSize
    /\ jobs' = Append(jobs, workItems[feedIdx])
    /\ sentItems' = sentItems \cup {workItems[feedIdx].Name}
    /\ feedIdx' = feedIdx + 1
    /\ UNCHANGED <<outside, scanCtxDone, workItems, numWorkers, jobsClosed,
                   results, resultsClosed, wg, warningCount, subfolderSizes,
                   scanPc, feederPc, closerPc, spc, sitem, walkStack, totalSize,
                   scanResult, cancelNotice, listedDirs, visited, counted>>

\* Lines 151-152: the select takes the cancellation case; its break leaves
\* the select only, and the loop goes on with the next item.
FeederSkip ==
    /\ feederPc = "feed"
    /\ feedIdx <= Len(workItems)
    /\ scanCtxDone
    /\ feedIdx' = feedIdx + 1
    /\ UNCHANGED <<outside, scanCtxDone, workItems, numWorkers, jobs, jobsClosed,
                   results, resultsClosed, wg, warningCount, subfolderSizes,
                   scanPc, feederPc, closerPc, spc, sitem, walkStack, totalSize,
                   scanResult, cancelNotice, sentItems, listedDirs, visited,
                   counted>>

\* Line 155: close(jobs) after the loop.
FeederClose ==
    /\ feederPc = "feed"
    /\ feedIdx > Len(workItems)
    /\ jobsClosed' = TRUE
    /\ feederPc' = "done"
    /\ UNCHANGED <<outside, scanCtxDone, workItems, numWorkers, jobs, results,
                   resultsClosed, wg, warningCount, subfolderSizes, scanPc,
                   feedIdx, closerPc, spc, sitem, walkStack, totalSize,
                   scanResult, cancelNotice, sentItems, listedDirs, visited,
                   counted>>

\* Line 160: wg.Wait() returns once every worker has called Done.
ResultsWait ==
    /\ closerPc = "wait"
    /\ wg = 0
    /\ closerPc' = "close"
    /\ UNCHANGED <<outside, scanCtxDone, workItems, numWorkers, jobs, jobsClosed,
                   results, resultsClosed, wg, warningCount, subfolderSizes,
                   scanPc, feedIdx, feederPc, spc, sitem, walkStack, totalSize,
                   scanResult, cancelNotice, sentItems, listedDirs, visited,
                   counted>>

ResultsCloseForgotten ==
    /\ closerPc = "close"
    /\ UNCHANGED resultsClosed
    /\ closerPc' = "done"
    /\ UNCHANGED <<outside, scanCtxDone, workItems, numWorkers, jobs, jobsClosed,
                   results, wg, warningCount, subfolderSizes, scanPc, feedIdx,
                   feederPc, spc, sitem, walkStack, totalSize, scanResult,
                   cancelNotice, sentItems, listedDirs, visited, counted>>

\* Line 161: close(results)
ResultsClose ==
    /\ closerPc = "close"
    /\ resultsClosed' = TRUE
    /\ closerPc' = "done"
    /\ UNCHANGED <<outside, scanCtxDone, workItems, numWorkers, jobs, jobsClosed,
                   results, wg, warningCount, subfolderSizes, scanPc, feedIdx,
                   feederPc, spc, sitem, walkStack, totalSize, scanResult,
                   cancelNotice, sentItems, listedDirs, visited, counted>>

\* ----------------------------------------------------- the scanner workers
\* Line 101: the worker takes the next item from jobs; when jobs is closed
\* and drained its loop ends and the deferred wg.Done() runs.
ScanWorkerRecv(w) ==
    /\ spc[w] = "recv"
    /\ jobs # <<>> \/ jobsClosed
    /\ IF jobs # <<>>
       THEN /\ sitem' = [sitem EXCEPT ![w] = Head(jobs)]
            /\ jobs' = Tail(jobs)
            /\ spc' = [spc EXCEPT ![w] = "ctx"]
            /\ UNCHANGED wg
       ELSE /\ wg' = wg - 1
            /\ spc' = [spc EXCEPT ![w] = "exited"]
            /\ UNCHANGED <<sitem, jobs>>
    /\ UNCHANGED <<outside, scanCtxDone, workItems, numWorkers, jobsClosed,
                   results, resultsClosed, warningCount, subfolderSizes, scanPc,
                   feedIdx, feederPc, closerPc, walkStack, totalSize, scanResult,
                   cancelNotice, sentItems, listedDirs, visited, counted>>

\* Lines 103-107: with the context cancelled the worker returns.
ScanWorkerCtx(w) ==
    /\ spc[w] = "ctx"
    /\ IF scanCtxDone
       THEN /\ wg' = wg - 1
            /\ spc' = [spc EXCEPT ![w] = "exited"]
       ELSE /\ spc' = [spc EXCEPT ![w] = "size"]
            /\ UNCHANGED wg
    /\ UNCHANGED <<outside, scanCtxDone, workItems, numWorkers, jobs, jobsClosed,
                   results, resultsClosed, warningCount, subfolderSizes, scanPc,
                   feedIdx, feederPc, closerPc, sitem, walkStack, totalSize,
                   scanResult, cancelNotice, sentItems, listedDirs, visited,
                   counted>>

ScanWorkerSizeKeepsTotal(w) ==
    /\ spc[w] = "size"
    /\ IF sitem[w].IsDir
       THEN /\ walkStack' = [walkStack EXCEPT ![w] = <<sitem[w].Path>>]
            /\ spc' = [spc EXCEPT ![w] = "walk"]
            /\ UNCHANGED <<totalSize, warningCount, visited, counted>>
       ELSE LET st == Stat(fs, sitem[w].Path)
            IN  /\ visited' = visited \cup {sitem[w].Path}
                /\ totalSize' = [totalSize EXCEPT ![w] = st.size]
                /\ warningCount' = IF st.ok THEN warningCount
                                   ELSE warningCount + 1
                /\ counted' = IF st.ok THEN counted \cup {sitem[w].Path}
                              ELSE counted
                /\ spc' = [spc EXCEPT ![w] = "result"]
                /\ UNCHANGED walkStack
    /\ UNCHANGED <<outside, scanCtxDone, workItems, numWorkers, jobs, jobsClosed,
                   results, resultsClosed, wg, subfolderSizes, scanPc, feedIdx,
                   feederPc, closerPc, sitem, scanResult, cancelNotice,
                   sentItems, listedDirs>>

\* Lines 109-118: a directory is handed to getFolderSize (lines 185-188: the
\* total starts at 0 and the walk at the folder itself); anything else is
\* examined with os.Stat, a failure counting one warning.
ScanWorkerSize(w) ==
    /\ spc[w] = "size"
    /\ IF sitem[w].IsDir
       THEN /\ walkStack' = [walkStack EXCEPT ![w] = <<sitem[w].Path>>]
            /\ totalSize' = [totalSize EXCEPT ![w] = 0]
            /\ spc' = [spc EXCEPT ![w] = "walk"]
            /\ UNCHANGED <<warningCount, visited, counted>>
       ELSE LET st == Stat(fs, sitem[w].Path)
            IN  /\ visited' = visited \cup {sitem[w].Path}
                /\ totalSize' = [totalSize EXCEPT ![w] = st.size]
                /\ warningCount' = IF st.ok THEN warningCount
                                   ELSE warningCount + 1
                /\ counted' = IF st.ok THEN counted \cup {sitem[w].Path}
                              ELSE counted
                /\ spc' = [spc EXCEPT ![w] = "result"]
                /\ UNCHANGED walkStack
    /\ UNCHANGED <<outside, scanCtxDone, workItems, numWorkers, jobs, jobsClosed,
                   results, resultsClosed, wg, subfolderSizes, scanPc, feedIdx,
                   feederPc, closerPc, sitem, scanResult, cancelNotice,
                   sentItems, listedDirs>>

\* The callback of lines 188-236 without the exclusion check.
WalkOutcomeNoExclusion(t, o, folderPath, p) ==
    IF p = folderPath THEN "descend"
    ELSE IF p \in t.links THEN "skip"
    ELSE IF o.MaxDepth > 0 /\ IsDir(t, p)
            /\ Len(p) - Len(folderPath) > o.MaxDepth THEN "skip"
    ELSE IF ~IsDir(t, p) THEN (IF p \in t.nostat THEN "warn" ELSE "count")
    ELSE "descend"

WalkOutcomeFollowsLinks(t, o, folderPath, p) ==
    IF p = folderPath THEN "descend"
    ELSE IF p \in t.links THEN "descend"
    ELSE IF o.MaxDepth > 0 /\ IsDir(t, p)
            /\ Len(p) - Len(folderPath) > o.MaxDepth THEN "skip"
    ELSE IF Last(p) \in o.ExcludeList THEN "skip"
    ELSE IF ~IsDir(t, p) THEN (IF p \in t.nostat THEN "warn" ELSE "count")
    ELSE "descend"

WalkOutcomeDepthOffByOne(t, o, folderPath, p) ==
    IF p = folderPath THEN "descend"
    ELSE IF p \in t.links THEN "skip"
    ELSE IF o.MaxDepth > 0 /\ IsDir(t, p)
            /\ Len(p) - Len(folderPath) >= o.MaxDepth THEN "skip"
    ELSE IF Last(p) \in o.ExcludeList THEN "skip"
    ELSE IF ~IsDir(t, p) THEN (IF p \in t.nostat THEN "warn" ELSE "count")
    ELSE "descend"

\* getFolderSize, lines 201-235: what the callback does with a path it is
\* given without an error while the context is live.  The folder itself is
\* entered; a symbolic link is passed over; a directory deeper than MaxDepth
\* is skipped, then anything whose name is in the exclude map; a file adds
\* its size, or a warning when it cannot be examined; a directory is entered.
WalkOutcome(t, o, folderPath, p) ==
    IF p = folderPath THEN "descend"
    ELSE IF p \in t.links THEN "skip"
    ELSE IF o.MaxDepth > 0 /\ IsDir(t, p)
            /\ Len(p) - Len(folderPath) > o.MaxDepth THEN "skip"
    ELSE IF Last(p) \in o.ExcludeList THEN "skip"
    ELSE IF ~IsDir(t, p) THEN (IF p \in t.nostat THEN "warn" ELSE "count")
    ELSE "descend"

\* Where the worker goes when the walk has the given paths left.
AfterVisit(stack) == IF stack = <<>> THEN "result" ELSE "walk"

ScanWorkerWalkCountsCancel(w) ==
    /\ spc[w] = "walk"
    /\ LET p == Head(walkStack[w])
           rest == Tail(walkStack[w])
           out == WalkOutcome(fs, scanOpts, sitem[w].Path, p)
           ents == ReadDir(fs, p)
           children == [i \in 1..Len(ents) |-> Join(p, ents[i])]
           left == IF out = "descend" THEN children \o rest ELSE rest
       IN  /\ visited' = visited \cup {p}
           /\ IF scanCtxDone
              THEN /\ walkStack' = [walkStack EXCEPT ![w] = <<>>]
                   /\ spc' = [spc EXCEPT ![w] = "result"]
                   /\ warningCount' = warningCount + 1
                   /\ UNCHANGED <<totalSize, listedDirs, counted>>
              ELSE IF out = "descend" /\ p \in fs.unreadable
              THEN /\ listedDirs' = listedDirs \cup {p}
                   /\ spc' = [spc EXCEPT ![w] = "walkerr"]
                   /\ UNCHANGED <<walkStack, totalSize, warningCount, counted>>
              ELSE /\ walkStack' = [walkStack EXCEPT ![w] = left]
                   /\ spc' = [spc EXCEPT ![w] = AfterVisit(left)]
                   /\ listedDirs' = IF out = "descend" THEN listedDirs \cup {p}
                                    ELSE listedDirs
                   /\ totalSize' = IF out = "count"
                                   THEN [totalSize EXCEPT
                                            ![w] = @ + FileSize(fs, p)]
                                   ELSE totalSize
                   /\ counted' = IF out = "count" THEN counted \cup {p}
                                 ELSE counted
                   /\ warningCount' = IF out = "warn" THEN warningCount + 1
                                      ELSE warningCount
    /\ UNCHANGED <<outside, scanCtxDone, workItems, numWorkers, jobs, jobsClosed,
                   results, resultsClosed, wg, subfolderSizes, scanPc, feedIdx,
                   feederPc, closerPc, sitem, scanResult, cancelNotice,
                   sentItems>>

\* filepath.WalkDir calls the callback on the next path (lines 188-236).  A
\* cancelled context ends the walk with the total reached so far.  A
\* directory the callback accepts is listed next: its entries are visited
\* before what was left, and a failure to list it is reported to the callback
\* in a second call.
ScanWorkerWalk(w) ==
    /\ spc[w] = "walk"
    /\ LET p == Head(walkStack[w])
           rest == Tail(walkStack[w])
           out == WalkOutcome(fs, scanOpts, sitem[w].Path, p)
           ents == ReadDir(fs, p)
           children == [i \in 1..Len(ents) |-> Join(p, ents[i])]
           left == IF out = "descend" THEN children \o rest ELSE rest
       IN  /\ visited' = visited \cup {p}
           /\ IF scanCtxDone
              THEN /\ walkStack' = [walkStack EXCEPT ![w] = <<>>]
                   /\ spc' = [spc EXCEPT ![w] = "result"]
                   /\ UNCHANGED <<totalSize, warningCount, listedDirs, counted>>
              ELSE IF out = "descend" /\ p \in fs.unreadable
              THEN /\ listedDirs' = listedDirs \cup {p}
                   /\ spc' = [spc EXCEPT ![w] = "walkerr"]
                   /\ UNCHANGED <<walkStack, totalSize, warningCount, counted>>
              ELSE /\ walkStack' = [walkStack EXCEPT ![w] = left]
                   /\ spc' = [spc EXCEPT ![w] = AfterVisit(left)]
                   /\ listedDirs' = IF out = "descend" THEN listedDirs \cup {p}
                                    ELSE listedDirs
                   /\ totalSize' = IF out = "count"
                                   THEN [totalSize EXCEPT
                                            ![w] = @ + FileSize(fs, p)]
                                   ELSE totalSize
                   /\ counted' = IF out = "count" THEN counted \cup {p}
                                 ELSE counted
                   /\ warningCount' = IF out = "warn" THEN warningCount + 1
                                      ELSE warningCount
    /\ UNCHANGED <<outside, scanCtxDone, workItems, numWorkers, jobs, jobsClosed,
                   results, resultsClosed, wg, subfolderSizes, scanPc, feedIdx,
                   feederPc, closerPc, sitem, scanResult, cancelNotice,
                   sentItems>>

ScanWorkerWalkErrAborts(w) ==
    /\ spc[w] = "walkerr"
    /\ LET rest == Tail(walkStack[w])
       IN  IF scanCtxDone
           THEN /\ walkStack' = [walkStack EXCEPT ![w] = <<>>]
                /\ spc' = [spc EXCEPT ![w] = "result"]
                /\ UNCHANGED warningCount
           ELSE /\ warningCount' = warningCount + 1
                /\ walkStack' = [walkStack EXCEPT ![w] = <<>>]
                /\ spc' = [spc EXCEPT ![w] = "result"]
    /\ UNCHANGED <<outside, scanCtxDone, workItems, numWorkers, jobs, jobsClosed,
                   results, resultsClosed, wg, subfolderSizes, scanPc, feedIdx,
                   feederPc, closerPc, sitem, totalSize, scanResult,
                   cancelNotice, sentItems, listedDirs, visited, counted>>

\* Lines 190-199, the second call of the callback, with the error of the
\* listing: a warning is counted and the walk goes on, unless the context
\* is cancelled by then.
ScanWorkerWalkErr(w) ==
    /\ spc[w] = "walkerr"
    /\ LET rest == Tail(walkStack[w])
       IN  IF scanCtxDone
           THEN /\ walkStack' = [walkStack EXCEPT ![w] = <<>>]
                /\ spc' = [spc EXCEPT ![w] = "result"]
                /\ UNCHANGED warningCount
           ELSE /\ warningCount' = warningCount + 1
                /\ walkStack' = [walkStack EXCEPT ![w] = rest]
                /\ spc' = [spc EXCEPT ![w] = AfterVisit(rest)]
    /\ UNCHANGED <<outside, scanCtxDone, workItems, numWorkers, jobs, jobsClosed,
                   results, resultsClosed, wg, subfolderSizes, scanPc, feedIdx,
                   feederPc, closerPc, sitem, totalSize, scanResult,
                   cancelNotice, sentItems, listedDirs, visited, counted>>

\* Lines 120-121: the result is sent on results.
ScanWorkerSendResult(w) ==
    /\ spc[w] = "result"
    /\ Len(results) < bufSize
    /\ results' = Append(results, [Name |-> sitem[w].Name,
                                   Size |-> totalSize[w]])
    /\ spc' = [spc EXCEPT ![w] = "recv"]
    /\ UNCHANGED <<outside, scanCtxDone, workItems, numWorkers, jobs, jobsClosed,
                   resultsClosed, wg, warningCount, subfolderSizes, scanPc,
                   feedIdx, feederPc, closerPc, sitem, walkStack, totalSize,
                   scanResult, cancelNotice, sentItems, listedDirs, visited,
                   counted>>

\* Lines 122-123: the select takes the cancellation case and the worker
\* returns without sending.
ScanWorkerAbandon(w) ==
    /\ spc[w] = "result"
    /\ scanCtxDone
    /\ wg' = wg - 1
    /\ spc' = [spc EXCEPT ![w] = "exited"]
    /\ UNCHANGED <<outside, scanCtxDone, workItems, numWorkers, jobs, jobsClosed,
                   results, resultsClosed, warningCount, subfolderSizes, scanPc,
                   feedIdx, feederPc, closerPc, sitem, walkStack, totalSize,
                   scanResult, cancelNotice, sentItems, listedDirs, visited,
                   counted>>

ScanWorkerStep(w) ==
    \/ ScanWorkerRecv(w)
    \/ ScanWorkerCtx(w)
    \/ ScanWorkerSize(w)
    \/ ScanWorkerWalk(w)
    \/ ScanWorkerWalkErr(w)
    \/ ScanWorkerSendResult(w)
    \/ ScanWorkerAbandon(w)

NextScanner ==
    \/ ScanStart
    \/ ScanGather
    \/ ScanGatherEnd
    \/ ScanReturn
    \/ ScanCancel
    \/ FeederSend
    \/ FeederSkip
    \/ FeederClose
    \/ ResultsWait
    \/ ResultsClose
    \/ \E w \in ScanWorkers : ScanWorkerStep(w)

SpecScanner == InitScanner /\ [][NextScanner]_vars

\* ---------------------------------------------------------- the two tools
\* Either tool is run, on its own.
InitTools == InitFinder \/ InitScanner

NextTools == Next \/ NextScanner

SpecTools == InitTools /\ [][NextTools]_vars

\* ------------------------------------------------- GetFileSize on its own
\* Concurrent calls of ff.GetFileSize, each taken in the steps the two
\* critical sections of ff.mu cut it into.
\* A directory of five files, more than the cache holds: two of them large,
\* one that os.Stat fails on.
CacheTree ==
    [root |-> <<"src">>,
     dirs |-> {<<"src">>},
     files |-> {<<"src", n>> : n \in Names},
     links |-> {},
     target |-> <<>>,
     unreadable |-> {},
     nostat |-> {<<"src", "y.md">>},
     big |-> {<<"src", "lib">>, <<"src", "x.go">>}]

InitCache ==
    /\ \E t \in {CacheTree, Tree3} :
          /\ fs = t
          /\ options = [DefaultOptions EXCEPT !.MinSize = 1]
          /\ ff = NewFileFinder(t.root, PatternAll, options)
    /\ FinderReset("off")
    /\ FilterReset
    /\ StressOff
    /\ ReplaceOff
    /\ ExecOff
    /\ ScannerOff

GetSizeStoreUnbounded(c) ==
    /\ gpc[c] = "store"
    /\ fileCache' = [q \in DOMAIN fileCache \cup {gpath[c]} |->
                        IF q = gpath[c] THEN gsize[c] ELSE fileCache[q]]
    /\ gok' = [gok EXCEPT ![c] = TRUE]
    /\ gpc' = [gpc EXCEPT ![c] = "done"]
    /\ UNCHANGED <<fs, options, ff, execVars, filterVars, scannerVars, histVars,
                   progressVars, stressVars, replaceVars, gpath,
                   gsize, ctxDone, dirQueue, closed, sendPanic, senders,
                   processingWg, workerWg, matchedFiles, matchedDirs, resultsMu,
                   totalDirs, skippedDirs, mainPc, monitorPc, pc, wpath, wents,
                   localFiles, localDirs, newCount, draining, listed, enqueued,
                   zeroHits, closeCount>>

\* GetFileSize, lines 132-137: the cache is looked up under the read lock;
\* a hit returns the cached size.
GetSizeLookup(c, p) ==
    /\ gpc[c] \in {"idle", "done"}
    /\ gpath' = [gpath EXCEPT ![c] = p]
    /\ IF p \in DOMAIN fileCache
       THEN /\ gsize' = [gsize EXCEPT ![c] = fileCache[p]]
            /\ gok' = [gok EXCEPT ![c] = TRUE]
            /\ gpc' = [gpc EXCEPT ![c] = "done"]
       ELSE /\ gsize' = [gsize EXCEPT ![c] = 0]
            /\ gok' = [gok EXCEPT ![c] = FALSE]
            /\ gpc' = [gpc EXCEPT ![c] = "stat"]
    /\ UNCHANGED <<fs, options, ff, execVars, filterVars, scannerVars, histVars,
                   progressVars, stressVars, replaceVars,
                   finderState>>

\* GetFileSize, lines 140-144: os.Stat; a failure returns (0, false).
GetSizeStat(c) ==
    /\ gpc[c] = "stat"
    /\ IF gpath[c] \in fs.nostat
       THEN /\ gpc' = [gpc EXCEPT ![c] = "done"]
            /\ UNCHANGED gsize
       ELSE /\ gsize' = [gsize EXCEPT ![c] = FileSize(fs, gpath[c])]
            /\ gpc' = [gpc EXCEPT ![c] = "store"]
    /\ UNCHANGED <<fs, options, ff, execVars, filterVars, scannerVars, histVars,
                   progressVars, stressVars, replaceVars, gpath,
                   gok, finderState>>

\* GetFileSize, lines 147-153: under the write lock the size is stored when
\* the cache holds fewer entries than its capacity; the size is returned.
GetSizeStore(c) ==
    /\ gpc[c] = "store"
    /\ fileCache' =
          IF Cardinality(DOMAIN fileCache) < CacheCap
          THEN [q \in DOMAIN fileCache \cup {gpath[c]} |->
                   IF q = gpath[c] THEN gsize[c] ELSE fileCache[q]]
          ELSE fileCache
    /\ gok' = [gok EXCEPT ![c] = TRUE]
    /\ gpc' = [gpc EXCEPT ![c] = "done"]
    /\ UNCHANGED <<fs, options, ff, execVars, filterVars, scannerVars, histVars,
                   progressVars, stressVars, replaceVars, gpath,
                   gsize, ctxDone, dirQueue, closed, sendPanic, senders,
                   processingWg, workerWg, matchedFiles, matchedDirs, resultsMu,
                   totalDirs, skippedDirs, mainPc, monitorPc, pc, wpath, wents,
                   localFiles, localDirs, newCount, draining, listed, enqueued,
                   zeroHits, closeCount>>

NextCache ==
    \E c \in Callers :
        \/ \E p \in fs.files : GetSizeLookup(c, p)
        \/ GetSizeStat(c)
        \/ GetSizeStore(c)

SpecCache == InitCache /\ [][NextCache]_vars

\* ------------------------------------------------------- find-everything
\* The command: its size flags are parsed, the finder is constructed, the
\* scan is run.  A flag value is the sequence of its characters.
DigitChars == <<"0", "1", "2", "3", "4", "5", "6", "7", "8", "9">>

IsDigit(c) == \E i \in 1..10 : DigitChars[i] = c

DigitValue(c) == (CHOOSE i \in 1..10 : DigitChars[i] = c) - 1

\* The letters of the flag values that are tried.
LowerChars == <<"a", "b", "c", "f", "g", "i", "k", "m", "n", "t">>
UpperChars == <<"A", "B", "C", "F", "G", "I", "K", "M", "N", "T">>

MapChar(from, to, c) ==
    IF \E i \in 1..Len(from) : from[i] = c
    THEN to[CHOOSE i \in 1..Len(from) : from[i] = c]
    ELSE c

\* strings.ToUpper, strings.ToLower
StrToUpper(s) == [i \in 1..Len(s) |-> MapChar(LowerChars, UpperChars, s[i])]
StrToLower(s) == [i \in 1..Len(s) |-> MapChar(UpperChars, LowerChars, s[i])]

\* strings.HasSuffix, strings.TrimSuffix
HasSuffix(s, suffix) ==
    /\ Len(s) >= Len(suffix)
    /\ SubSeq(s, Len(s) - Len(suffix) + 1, Len(s)) = suffix

TrimSuffix(s, suffix) ==
    IF HasSuffix(s, suffix) THEN SubSeq(s, 1, Len(s) - Len(suffix)) ELSE s

AllDigits(s) == \A i \in 1..Len(s) : IsDigit(s[i])

RECURSIVE DecimalValue(_)
DecimalValue(s) ==
    IF s = <<>> THEN 0
    ELSE 10 * DecimalValue(SubSeq(s, 1, Len(s) - 1)) + DigitValue(s[Len(s)])

RECURSIVE Pow10(_)
Pow10(k) == IF k = 0 THEN 1 ELSE 10 * Pow10(k - 1)

ParseFailed == [ok |-> FALSE, value |-> 0]

\* strconv.ParseInt(s, 10, 64): an optional sign and at least one digit.
ParseInt(s) ==
    LET signed == Len(s) > 0 /\ s[1] \in {"+", "-"}
        body == IF signed THEN Tail(s) ELSE s
    IN  IF body # <<>> /\ AllDigits(body)
        THEN [ok |-> TRUE,
              value |-> IF signed /\ s[1] = "-" THEN 0 - DecimalValue(body)
                        ELSE DecimalValue(body)]
        ELSE ParseFailed

\* strconv.ParseFloat(s, 64) on decimal digits with at most one point (no
\* flag value that is tried has a sign, an exponent or a spelled-out
\* infinity before its unit): the number is num / den.
ParseFloat(s) ==
    LET points == {i \in 1..Len(s) : s[i] = "."}
        at == IF points = {} THEN Len(s) + 1 ELSE CHOOSE i \in points : TRUE
        whole == SubSeq(s, 1, at - 1)
        frac == SubSeq(s, at + 1, Len(s))
    IN  IF /\ Cardinality(points) <= 1
           /\ AllDigits(whole) /\ AllDigits(frac)
           /\ Len(whole) + Len(frac) > 0
        THEN [ok |-> TRUE, num |-> DecimalValue(whole \o frac),
              den |-> Pow10(Len(frac))]
        ELSE [ok |-> FALSE, num |-> 0, den |-> 1]

\* The unit suffixes of parseSize, longest first.
Units == <<<<"T", "B">>, <<"G", "B">>, <<"M", "B">>, <<"K", "B">>, <<"B">>>>

Multiplier(suffix) ==
    CASE suffix = <<"T", "B">> -> 1024 * 1024 * 1024 * 1024
      [] suffix = <<"G", "B">> -> 1024 * 1024 * 1024
      [] suffix = <<"M", "B">> -> 1024 * 1024
      [] suffix = <<"K", "B">> -> 1024
      [] suffix = <<"B">> -> 1

\* parseSize: "inf" in any case is the largest size; a value that ends in a
\* unit is a decimal number times the unit, cut to an integer; any other
\* value is an integer number of bytes.
parseSize(sizeStr) ==
    IF StrToLower(sizeStr) = <<"i", "n", "f">>
    THEN [ok |-> TRUE, value |-> MaxSizeInf]
    ELSE LET upper == StrToUpper(sizeStr)
             hits == {i \in 1..Len(Units) : HasSuffix(upper, Units[i])}
         IN  IF hits # {}
             THEN LET u == Units[CHOOSE i \in hits : \A j \in hits : i <= j]
                      f == ParseFloat(TrimSuffix(upper, u))
                  IN  IF f.ok
                      THEN [ok |-> TRUE,
                            value |-> (f.num * Multiplier(u)) \div f.den]
                      ELSE ParseFailed
             ELSE ParseInt(upper)

\* regexp.Compile on the exclude patterns that are tried: an opening
\* parenthesis alone is no regular expression.
RegexCompiles(re) == re # "("

\* regexp.Compile on GlobToRegex(pattern): the glob is quoted, so only a
\* pattern that is not valid UTF-8 (written "\\xff" here) fails to compile.
GlobCompiles(glob) == glob # "\\xff"

\* The names a glob that is tried matches.
GlobNames(glob) ==
    CASE glob = "*" -> PatternAll
      [] glob = "*.go" -> PatternGo
      [] OTHER -> {}

\* The error NewFileFinder returns ("" for none): the match pattern is
\* compiled first, then each exclude pattern in turn.
NewFileFinderErr(glob, o) ==
    IF ~GlobCompiles(glob) THEN "invalid pattern"
    ELSE IF \E i \in 1..Len(o.ExcludePatterns) :
               ~RegexCompiles(o.ExcludePatterns[i])
         THEN "invalid exclude pattern"
         ELSE ""

\* The flag values that are tried.
MinSizeArgs ==
    {<<"0">>, <<"1", "b">>, <<"1", ".", "5", "K", "B">>, <<"1", ".", "5">>,
     <<"K", "B">>, <<"a", "b", "c">>}

MaxSizeArgs ==
    {<<"i", "n", "f">>, <<"I", "n", "f">>, <<"2">>, <<"1", "G">>, <<>>}

ExcludePatternArgs == {<<>>, <<"y\\.md$">>, <<"y\\.md$", "(">>}

PatternArgs == {"*", "*.go", "\\xff"}

InitExecute ==
    /\ fs = Tree3
    /\ options = [DefaultOptions EXCEPT !.MaxWorkers = 1, !.MaxResults = 1]
    /\ ff = NewFileFinder(fs.root, PatternAll, options)
    /\ FinderReset("off")
    /\ FilterReset
    /\ StressOff
    /\ ReplaceOff
    /\ ScannerOff
    /\ execPc = "minsize"
    /\ execArgs \in [minSize : MinSizeArgs, maxSize : MaxSizeArgs,
                     excludePatterns : ExcludePatternArgs,
                     pattern : PatternArgs]
    /\ execErr = ""

\* What a step of the command before the scan leaves alone.
execFrame ==
    <<fs, execArgs, filterVars, cacheCallVars, scannerVars, histVars,
      progressVars, stressVars, replaceVars,
      fileCache, ctxDone, dirQueue, closed, sendPanic, senders, processingWg,
      workerWg, matchedFiles, matchedDirs, resultsMu, totalDirs, skippedDirs,
      monitorPc, pc, wpath, wents, localFiles, localDirs, newCount, draining,
      listed, enqueued, zeroHits, closeCount>>

\* Lines 48-51: minSizeBytes, err := parseSize(minSize)
ExecParseMin ==
    /\ execPc = "minsize"
    /\ LET r == parseSize(execArgs.minSize)
       IN  IF r.ok
           THEN /\ options' = [options EXCEPT !.MinSize = r.value]
                /\ execPc' = "maxsize"
                /\ UNCHANGED execErr
           ELSE /\ execErr' = "error parsing min-size"
                /\ execPc' = "error"
                /\ UNCHANGED options
    /\ UNCHANGED <<execFrame, ff, mainPc>>

\* Lines 53-56: maxSizeBytes, err := parseSize(maxSize)
ExecParseMax ==
    /\ execPc = "maxsize"
    /\ LET r == parseSize(execArgs.maxSize)
       IN  IF r.ok
           THEN /\ options' = [options EXCEPT !.MaxSize = r.value]
                /\ execPc' = "new"
                /\ UNCHANGED execErr
           ELSE /\ execErr' = "error parsing max-size"
                /\ execPc' = "error"
                /\ UNCHANGED options
    /\ UNCHANGED <<execFrame, ff, mainPc>>

\* Lines 76-93: the options are filled in and the finder is constructed;
\* with no error, FindFilesAndDirs is called.
ExecNewFinderUnchecked ==
    /\ execPc = "new"
    /\ options' = [options EXCEPT
                      !.ExcludePatterns = execArgs.excludePatterns]
    /\ ff' = NewFileFinder(fs.root, GlobNames(execArgs.pattern), options')
    /\ mainPc' = "start"
    /\ execPc' = "scan"
    /\ UNCHANGED <<execFrame, execErr>>

ExecNewFinder ==
    /\ execPc = "new"
    /\ options' = [options EXCEPT
                      !.ExcludePatterns = execArgs.excludePatterns]
    /\ LET err == NewFileFinderErr(execArgs.pattern, options')
       IN  IF err = ""
           THEN /\ ff' = NewFileFinder(fs.root, GlobNames(execArgs.pattern),
                                       options')
                /\ mainPc' = "start"
                /\ execPc' = "scan"
                /\ UNCHANGED execErr
           ELSE /\ execErr' = err
                /\ execPc' = "error"
                /\ UNCHANGED <<ff, mainPc>>
    /\ UNCHANGED execFrame

\* Lines 93-98: the scan has returned, the results are printed.
ExecReturn ==
    /\ execPc = "scan"
    /\ mainPc = "returned"
    /\ execPc' = "done"
    /\ UNCHANGED <<fs, options, ff, execArgs, execErr, filterVars, cacheCallVars,
                   scannerVars, histVars, progressVars, stressVars,
                   replaceVars, finderState>>

NextExecute ==
    \/ ExecParseMin
    \/ ExecParseMax
    \/ ExecNewFinder
    \/ ExecReturn
    \/ Next

SpecExecute == InitExecute /\ [][NextExecute]_vars

\* ======================================================== api-stress-test
\* The largest number of requests and the largest worker count explored.
StressRequests == 3
StressWorkers == 4

\* The request counts and worker counts a stress test is run with; main.go
\* replaces a count of 0 or less by a positive default.
StressArgs ==
    {[totalRequests |-> n, concurrency |-> c] :
        n \in 1..StressRequests, c \in {1, StressWorkers}}

\* What ExecuteRequest can return: a 2xx answer, or a failed request (also
\* what a request interrupted by the cancellation returns).
Outcomes ==
    {[StatusCode |-> 200, Elapsed |-> 1, OK |-> TRUE],
     [StatusCode |-> 0, Elapsed |-> 2, OK |-> FALSE]}

InitStress ==
    /\ fs = Tree1
    /\ options = DefaultOptions
    /\ ff = NewFileFinder(fs.root, PatternAll, DefaultOptions)
    /\ FinderReset("off")
    /\ FilterReset
    /\ ExecOff
    /\ ScannerOff
    /\ ReplaceOff
    /\ stArgs \in StressArgs
    /\ StressReset("start")

\* What no step of a stress test changes.
notStress ==
    <<fs, options, ff, execVars, filterVars, cacheCallVars, scannerVars,
      histVars, progressVars, finderState, replaceVars, stArgs>>

\* Line 81: the capacity of results.
ResultsCap == stArgs.concurrency * 2

\* Line 120: batchSize := max(1, concurrency/2)
BatchSize ==
    IF stArgs.concurrency \div 2 >= 1 THEN stArgs.concurrency \div 2 ELSE 1

\* Collector.Record
Record(c, statusCode, elapsed, ok) ==
    [latencies |-> Append(c.latencies, elapsed),
     statusCount |-> [c.statusCount EXCEPT ![statusCode] = @ + 1],
     minLatency |-> IF c.firstLatency \/ elapsed < c.minLatency
                    THEN elapsed ELSE c.minLatency,
     maxLatency |-> IF c.firstLatency \/ elapsed > c.maxLatency
                    THEN elapsed ELSE c.maxLatency,
     firstLatency |-> FALSE,
     successes |-> IF ok THEN c.successes + 1 ELSE c.successes,
     failures |-> IF ok THEN c.failures ELSE c.failures + 1]

\* Lines 129-131 and 141-143: every result of the batch is recorded.
RECURSIVE RecordBatch(_, _)
RecordBatch(c, batch) ==
    IF batch = <<>> THEN c
    ELSE RecordBatch(Record(c, Head(batch).StatusCode, Head(batch).Elapsed,
                            Head(batch).OK),
                     Tail(batch))

\* The identities of the results of a batch, in order.
BatchIds(batch) == [i \in 1..Len(batch) |-> batch[i].id]

\* Lines 61-115: the signal goroutine, the workers, the feeder and the
\* closer are started.
StStart ==
    /\ stMainPc = "start"
    /\ sigPc' = "wait"
    /\ stWorkers' = [stWorkers EXCEPT !["recv"] = stArgs.concurrency]
    /\ stWg' = stArgs.concurrency
    /\ stFeederPc' = "check"
    /\ stCloserPc' = "wait"
    /\ stMainPc' = "collect"
    /\ UNCHANGED <<notStress, stCtxDone, stJobs, stJobsClosed, stResults,
                   stResultsClosed, stFeedI, stSending, stBatch, stCompleted,
                   collector, stProduced, stRecordedIds>>

\* Lines 66-70: a signal arrives while the test runs; the context is
\* cancelled.
StInterrupt ==
    /\ sigPc = "wait"
    /\ stMainPc # "returned"
    /\ stCtxDone' = TRUE
    /\ sigPc' = "done"
    /\ UNCHANGED <<notStress, stJobs, stJobsClosed, stResults,
                   stResultsClosed, stWg, stFeedI, stFeederPc, stCloserPc,
                   stWorkers, stSending, stBatch, stCompleted, collector,
                   stMainPc, stProduced, stRecordedIds>>

\* Lines 102-105: the feeder's loop test and its look at the context.
StFeederCheck ==
    /\ stFeederPc = "check"
    /\ stFeederPc' = IF stFeedI < stArgs.totalRequests /\ ~stCtxDone
                     THEN "send" ELSE "close"
    /\ UNCHANGED <<notStress, stCtxDone, sigPc, stJobs, stJobsClosed,
                   stResults, stResultsClosed, stWg, stFeedI, stCloserPc,
                   stWorkers, stSending, stBatch, stCompleted, collector,
                   stMainPc, stProduced, stRecordedIds>>

\* Line 106: jobs <- struct{}{} (jobs holds totalRequests tokens)
StFeederSend ==
    /\ stFeederPc = "send"
    /\ stJobs < stArgs.totalRequests
    /\ stJobs' = stJobs + 1
    /\ stFeedI' = stFeedI + 1
    /\ stFeederPc' = "check"
    /\ UNCHANGED <<notStress, stCtxDone, sigPc, stJobsClosed, stResults,
                   stResultsClosed, stWg, stCloserPc, stWorkers, stSending,
                   stBatch, stCompleted, collector, stMainPc, stProduced,
                   stRecordedIds>>

\* Line 108: close(jobs)
StFeederClose ==
    /\ stFeederPc = "close"
    /\ stJobsClosed' = TRUE
    /\ stFeederPc' = "done"
    /\ UNCHANGED <<notStress, stCtxDone, sigPc, stJobs, stResults,
                   stResultsClosed, stWg, stFeedI, stCloserPc, stWorkers,
                   stSending, stBatch, stCompleted, collector, stMainPc,
                   stProduced, stRecordedIds>>

\* One worker goes from position a to position b.
Moved(a, b) ==
    [stWorkers EXCEPT ![a] = @ - 1, ![b] = stWorkers[b] + 1]

\* Lines 88-89: `for range jobs`: a worker takes a token, or finds jobs
\* closed and empty and ends (wg.Done()).
StWorkerRecv ==
    /\ stWorkers["recv"] > 0
    /\ stJobs > 0 \/ stJobsClosed
    /\ IF stJobs > 0
       THEN /\ stJobs' = stJobs - 1
            /\ stWorkers' = Moved("recv", "ctx")
            /\ UNCHANGED stWg
       ELSE /\ stWorkers' = Moved("recv", "exited")
            /\ stWg' = stWg - 1
            /\ UNCHANGED stJobs
    /\ UNCHANGED <<notStress, stCtxDone, sigPc, stJobsClosed, stResults,
                   stResultsClosed, stFeedI, stFeederPc, stCloserPc, stSending,
                   stBatch, stCompleted, collector, stMainPc, stProduced,
                   stRecordedIds>>

\* Lines 91-93: a worker that finds the context cancelled returns
\* (wg.Done()).
StWorkerCtx ==
    /\ stWorkers["ctx"] > 0
    /\ IF stCtxDone
       THEN /\ stWorkers' = Moved("ctx", "exited")
            /\ stWg' = stWg - 1
       ELSE /\ stWorkers' = Moved("ctx", "exec")
            /\ UNCHANGED stWg
    /\ UNCHANGED <<notStress, stCtxDone, sigPc, stJobs, stJobsClosed,
                   stResults, stResultsClosed, stFeedI, stFeederPc, stCloserPc,
                   stSending, stBatch, stCompleted, collector, stMainPc,
                   stProduced, stRecordedIds>>

\* Line 94: request.ExecuteRequest returns a result.
StWorkerExec ==
    /\ stWorkers["exec"] > 0
    /\ \E o \in Outcomes :
          stSending' = stSending \cup
              {[id |-> stProduced + 1, StatusCode |-> o.StatusCode,
                Elapsed |-> o.Elapsed, OK |-> o.OK]}
    /\ stProduced' = stProduced + 1
    /\ stWorkers' = [stWorkers EXCEPT !["exec"] = @ - 1]
    /\ UNCHANGED <<notStress, stCtxDone, sigPc, stJobs, stJobsClosed,
                   stResults, stResultsClosed, stWg, stFeedI, stFeederPc,
                   stCloserPc, stBatch, stCompleted, collector, stMainPc,
                   stRecordedIds>>

\* Line 95: results <- result (a blocking send)
StWorkerSend(r) ==
    /\ r \in stSending
    /\ Len(stResults) < ResultsCap
    /\ stResults' = Append(stResults, r)
    /\ stSending' = stSending \ {r}
    /\ stWorkers' = [stWorkers EXCEPT !["recv"] = @ + 1]
    /\ UNCHANGED <<notStress, stCtxDone, sigPc, stJobs, stJobsClosed,
                   stResultsClosed, stWg, stFeedI, stFeederPc, stCloserPc,
                   stBatch, stCompleted, collector, stMainPc, stProduced,
                   stRecordedIds>>

\* Line 113: wg.Wait() returns once the counter is zero.
StCloserWait ==
    /\ stCloserPc = "wait"
    /\ stWg = 0
    /\ stCloserPc' = "close"
    /\ UNCHANGED <<notStress, stCtxDone, sigPc, stJobs, stJobsClosed,
                   stResults, stResultsClosed, stWg, stFeedI, stFeederPc,
                   stWorkers, stSending, stBatch, stCompleted, collector,
                   stMainPc, stProduced, stRecordedIds>>

\* Line 114: close(results)
StCloserClose ==
    /\ stCloserPc = "close"
    /\ stResultsClosed' = TRUE
    /\ stCloserPc' = "done"
    /\ UNCHANGED <<notStress, stCtxDone, sigPc, stJobs, stJobsClosed,
                   stResults, stWg, stFeedI, stFeederPc, stWorkers, stSending,
                   stBatch, stCompleted, collector, stMainPc, stProduced,
                   stRecordedIds>>

\* Lines 123-138: one turn of `for res := range results`: the result joins
\* the batch; a full batch, or the batch holding the last expected result,
\* is recorded.
StCollect ==
    /\ stMainPc = "collect"
    /\ stResults # <<>>
    /\ stResults' = Tail(stResults)
    /\ stCompleted' = stCompleted + 1
    /\ LET batch == Append(stBatch, Head(stResults))
       IN  IF Len(batch) >= BatchSize \/ stCompleted' = stArgs.totalRequests
           THEN /\ collector' = RecordBatch(collector, batch)
                /\ stRecordedIds' = stRecordedIds \o BatchIds(batch)
                /\ stBatch' = <<>>
           ELSE /\ stBatch' = batch
                /\ UNCHANGED <<collector, stRecordedIds>>
    /\ UNCHANGED <<notStress, stCtxDone, sigPc, stJobs, stJobsClosed,
                   stResultsClosed, stWg, stFeedI, stFeederPc, stCloserPc,
                   stWorkers, stSending, stMainPc, stProduced>>

StFinishDropsBatch ==
    /\ stMainPc = "collect"
    /\ stResults = <<>>
    /\ stResultsClosed
    /\ stBatch' = <<>>
    /\ stCtxDone' = TRUE
    /\ stMainPc' = "returned"
    /\ UNCHANGED <<notStress, sigPc, stJobs, stJobsClosed, stResults,
                   stResultsClosed, stWg, stFeedI, stFeederPc, stCloserPc,
                   stWorkers, stSending, stCompleted, stProduced, collector, stRecordedIds>>

\* Lines 138-143 and 62: results is closed and drained, the loop ends; what
\* is left in the batch is recorded; the statistics are printed and the
\* deferred cancel() runs as the function returns.
StFinish ==
    /\ stMainPc = "collect"
    /\ stResults = <<>>
    /\ stResultsClosed
    /\ collector' = RecordBatch(collector, stBatch)
    /\ stRecordedIds' = stRecordedIds \o BatchIds(stBatch)
    /\ stBatch' = <<>>
    /\ stCtxDone' = TRUE
    /\ stMainPc' = "returned"
    /\ UNCHANGED <<notStress, sigPc, stJobs, stJobsClosed, stResults,
                   stResultsClosed, stWg, stFeedI, stFeederPc, stCloserPc,
                   stWorkers, stSending, stCompleted, stProduced>>

NextStress ==
    \/ StStart
    \/ StInterrupt
    \/ StFeederCheck
    \/ StFeederSend
    \/ StFeederClose
    \/ StWorkerRecv
    \/ StWorkerCtx
    \/ StWorkerExec
    \/ \E r \in stSending : StWorkerSend(r)
    \/ StCloserWait
    \/ StCloserClose
    \/ StCollect
    \/ StFinish

SpecStress == InitStress /\ [][NextStress]_vars

\* The scheduler lets a goroutine that can take a step take one.
FairSpecStress == SpecStress /\ WF_vars(NextStress)

\* ============================================================ replace-text
\* The longest file content explored.
MaxContentLen == 2

\* The bytes of a file: two letters and a byte that is not valid UTF-8.
Bytes == {"a", "b", "\\xff"}

Contents == UNION {[1..k -> Bytes] : k \in 0..MaxContentLen}

\* The texts searched for and the texts put in their place.
OldTexts == {<<"a">>, <<"a", "b">>}
NewTexts == {<<>>, <<"b">>, <<"b", "a">>}

\* utf8.Valid
Valid(content) == \A i \in 1..Len(content) : content[i] # "\\xff"

\* strings.Contains
Contains(s, sub) ==
    \E i \in 1..(Len(s) - Len(sub) + 1) : SubSeq(s, i, i + Len(sub) - 1) = sub

\* strings.ReplaceAll, for a text to replace that is not empty: the
\* occurrences are replaced from the left and do not overlap.
RECURSIVE ReplaceAll(_, _, _)
ReplaceAll(s, old, new) ==
    IF Len(s) < Len(old) THEN s
    ELSE IF SubSeq(s, 1, Len(old)) = old
         THEN new \o ReplaceAll(SubSeq(s, Len(old) + 1, Len(s)), old, new)
         ELSE <<Head(s)>> \o ReplaceAll(Tail(s), old, new)

\* What a path can hold after a call of os.WriteFile that failed: what it
\* held (the file could not be opened), or a part of the data (opening
\* truncates the file).
AfterFailedWrite(before, data) ==
    {before} \cup {SubSeq(data, 1, k) : k \in 0..(Len(data) - 1)}

InitReplace ==
    /\ fs = Tree1
    /\ options = DefaultOptions
    /\ ff = NewFileFinder(fs.root, PatternAll, DefaultOptions)
    /\ FinderReset("off")
    /\ FilterReset
    /\ ExecOff
    /\ ScannerOff
    /\ StressOff
    /\ rfPc = "read"
    /\ rfArgs \in [oldText : OldTexts, newText : NewTexts,
                   createBackup : BOOLEAN]
    /\ rfOrig \in Contents
    /\ rfBak0 \in {Absent, <<"b">>}
    /\ rfFile = rfOrig
    /\ rfBak = rfBak0
    /\ rfContent = <<>>
    /\ rfErr = ""

\* What no step of processFile changes.
notReplace ==
    <<fs, options, ff, execVars, filterVars, cacheCallVars, scannerVars,
      histVars, progressVars, finderState, stressVars, rfArgs, rfOrig, rfBak0>>

\* Lines 18-21: os.ReadFile
RfRead ==
    /\ rfPc = "read"
    /\ \/ /\ rfContent' = rfFile
          /\ rfPc' = "check"
          /\ UNCHANGED rfErr
       \/ /\ rfErr' = "failed to read file"
          /\ rfPc' = "returned"
          /\ UNCHANGED rfContent
    /\ UNCHANGED <<notReplace, rfFile, rfBak>>

\* Lines 24-37: a file that is not valid UTF-8, or does not contain the old
\* text, is skipped.
RfCheck ==
    /\ rfPc = "check"
    /\ rfPc' = IF ~Valid(rfContent) \/ ~Contains(rfContent, rfArgs.oldText)
               THEN "returned"
               ELSE IF rfArgs.createBackup THEN "remove" ELSE "write"
    /\ UNCHANGED <<notReplace, rfFile, rfBak, rfContent, rfErr>>

\* Line 42: os.Remove(backupFilename); its error is ignored.
RfRemove ==
    /\ rfPc = "remove"
    /\ rfBak' \in {Absent, rfBak}
    /\ rfPc' = "rename"
    /\ UNCHANGED <<notReplace, rfFile, rfContent, rfErr>>

RfRenameSkipped ==
    /\ rfPc = "rename"
    /\ rfPc' = "write"
    /\ UNCHANGED <<notReplace, rfFile, rfBak, rfContent, rfErr>>

\* Lines 45-47: os.Rename(filename, backupFilename)
RfRename ==
    /\ rfPc = "rename"
    /\ \/ /\ rfBak' = rfFile
          /\ rfFile' = Absent
          /\ rfPc' = "write"
          /\ UNCHANGED rfErr
       \/ /\ rfErr' = "failed to create backup"
          /\ rfPc' = "returned"
          /\ UNCHANGED <<rfFile, rfBak>>
    /\ UNCHANGED <<notReplace, rfContent>>

\* Lines 51-55 and 61-65: the replacement is written to the original path.
RfWrite ==
    /\ rfPc = "write"
    /\ LET newContent == ReplaceAll(rfContent, rfArgs.oldText, rfArgs.newText)
       IN  \/ /\ rfFile' = newContent
              /\ rfPc' = "returned"
              /\ UNCHANGED rfErr
           \/ /\ rfFile' \in AfterFailedWrite(rfFile, newContent)
              /\ IF rfArgs.createBackup
                 THEN /\ rfPc' = "restore"
                      /\ UNCHANGED rfErr
                 ELSE /\ rfPc' = "returned"
                      /\ rfErr' = "failed to write file"
    /\ UNCHANGED <<notReplace, rfBak, rfContent>>

\* Lines 55-61: os.Rename(backupFilename, filename) after a failed write.
RfRestore ==
    /\ rfPc = "restore"
    /\ \/ /\ rfFile' = rfBak
          /\ rfBak' = Absent
          /\ rfErr' = "failed to write file"
       \/ /\ rfErr' = "failed to write file and restore backup"
          /\ UNCHANGED <<rfFile, rfBak>>
    /\ rfPc' = "returned"
    /\ UNCHANGED <<notReplace, rfContent>>

NextReplace ==
    \/ RfRead
    \/ RfCheck
    \/ RfRemove
    \/ RfRename
    \/ RfWrite
    \/ RfRestore

SpecReplace == InitReplace /\ [][NextReplace]_vars

\* ============================================================== properties
Range(q) == {q[i] : i \in 1..Len(q)}

NoDuplicates(q) == Cardinality(Range(q)) = Len(q)

\* Worker w holds a job: it has received one and not yet called Done for it.
Processing(w) ==
    \/ pc[w] \in {"readdir", "entry", "ctx", "load", "store", "add", "send",
                "check", "done"}
    \/ pc[w] \in {"lock", "merge", "limit"} /\ ~draining[w]

\* Jobs that wait for a worker: in the queue or held by a fallback sender.
JobsPending == dirQueue # <<>> \/ senders # {}

\* The number of results FindFilesAndDirs holds.
ResultCount == Len(matchedFiles) + Len(matchedDirs)

\* The reference of the traversal: a sequential recursive walk from the
\* root with the same filters, written without any of the scan's machinery.
NaiveFileOk(t, f, p) ==
    /\ MatchesPattern(f, p[Len(p)])
    /\ CheckFileType(f, p)
    /\ (f.minSize > 0 \/ f.maxSize < MaxSizeInf) =>
          /\ p \notin t.nostat
          /\ FileSize(t, p) >= f.minSize
          /\ FileSize(t, p) <= f.maxSize

RECURSIVE NaiveWalk(_, _, _)
NaiveWalk(t, f, d) ==
    IF d \in t.unreadable THEN [files |-> {}, dirs |-> {}, visited |-> {d}]
    ELSE LET kept == {p \in Paths(t) :
                        /\ Len(p) = Len(d) + 1
                        /\ SubSeq(p, 1, Len(d)) = d
                        /\ ~ShouldExclude(f, p)}
             subs == {NaiveWalk(t, f, c) : c \in kept \cap t.dirs}
         IN  [files |-> {p \in kept \cap t.files : NaiveFileOk(t, f, p)}
                          \cup UNION {r.files : r \in subs},
              dirs |-> {p \in kept \cap t.dirs : MatchesPattern(f, p[Len(p)])}
                          \cup UNION {r.dirs : r \in subs},
              visited |-> {d} \cup UNION {r.visited : r \in subs}]

Naive == NaiveWalk(fs, ff, ff.basePath)

NaiveCount == Cardinality(Naive.files) + Cardinality(Naive.dirs)

\* ---- C1
\* C1: under fair scheduling a scan that is not cancelled from outside
\* returns, and in no reachable state are jobs pending while neither a
\* worker nor a fallback sender can take a step.
C1_ScanReturns ==
    /\ [](JobsPending =>
            \/ ENABLED (\E w \in Workers : WorkerStep(w))
            \/ ENABLED (\E p \in senders : SenderSend(p)))
    /\ <>(mainPc = "returned")

\* The hazard C1 is about: the queue is full, a child waits in a fallback
\* sender and every running worker is busy with a job of its own.
C1_Witness ==
    /\ Len(dirQueue) = QueueCap
    /\ senders # {}
    /\ \A w \in Workers : pc[w] # "off" => Processing(w)

JobsInHand ==
    Cardinality({w \in Workers : pc[w] = "send"})
        + (IF mainPc = "send" THEN 1 ELSE 0)

JobsAccounted ==
    Len(dirQueue) + Cardinality(senders)
        + Cardinality({w \in Workers : Processing(w)})

\* C3 as stated: in every reachable state the in-flight counter equals the
\* number of jobs queued, held by an overflow sender or being processed,
\* and is never negative.
C3_Original ==
    /\ processingWg >= 0
    /\ processingWg = JobsAccounted

\* C3 (amended): the counter is incremented before the send and decremented
\* after the job is processed, so it equals the jobs queued, held by an
\* overflow sender or being processed, plus the jobs already counted whose
\* send has not happened yet; it is never negative.
C3_InFlightAccounting ==
    /\ processingWg >= 0
    /\ processingWg = JobsAccounted + JobsInHand

\* A worker has counted a child and not yet sent it, while jobs are queued
\* and held by a fallback sender.
C3_Witness ==
    /\ \E w \in Workers : pc[w] = "send"
    /\ dirQueue # <<>>
    /\ senders # {}
    /\ processingWg >= 3

\* ---- C4
\* C4: the in-flight count comes down to zero at most once, and exactly
\* once by the time the scan returns; while it is zero no job is queued,
\* held by a sender or being processed; the queue is closed at most once
\* (exactly once by the return), only after the count reached zero and
\* after the root was listed and its job finished.
C4_ZeroOnceThenClose ==
    /\ zeroHits <= 1
    /\ closeCount <= 1
    /\ processingWg = 0 =>
          /\ dirQueue = <<>>
          /\ senders = {}
          /\ \A w \in Workers : ~Processing(w)
    /\ closed =>
          /\ zeroHits = 1
          /\ processingWg = 0
          /\ listed[ff.basePath] # <<>>
    /\ monitorPc = "close" => zeroHits = 1
    /\ mainPc = "returned" => zeroHits = 1 /\ closeCount = 1 /\ closed

\* The queue has been closed after a scan in which several jobs were
\* in flight at once.
C4_Witness ==
    /\ closed
    /\ zeroHits = 1
    /\ BagCardinality(enqueued) >= 3
    /\ \E w \in Workers : pc[w] = "recv"

\* ---- C5
\* The directories a scan has to visit: the root, and every directory all
\* of whose ancestors up to the root are readable and not excluded, and
\* that is not excluded itself.
ReachableDirs ==
    {d \in fs.dirs :
        /\ Len(d) >= Len(ff.basePath)
        /\ SubSeq(d, 1, Len(ff.basePath)) = ff.basePath
        /\ \A k \in (Len(ff.basePath) + 1)..Len(d) :
              /\ ~ShouldExclude(ff, SubSeq(d, 1, k))
              /\ SubSeq(d, 1, k - 1) \notin fs.unreadable}

\* C5: no directory is listed twice, and when the scan returns without a
\* cancellation every reachable directory has been listed exactly once, by
\* one worker.
C5_Completeness ==
    /\ \A d \in fs.dirs : Len(listed[d]) <= 1
    /\ (mainPc = "returned" /\ ~ctxDone) =>
          \A d \in ReachableDirs : Len(listed[d]) = 1

\* A scan of several directories has returned, uncancelled, and two workers
\* each listed some of them.
C5_Witness ==
    /\ mainPc = "returned"
    /\ ~ctxDone
    /\ Cardinality(ReachableDirs) >= 3
    /\ \E d, e \in ReachableDirs :
          /\ listed[d] # <<>> /\ listed[e] # <<>>
          /\ listed[d] # listed[e]

\* ---- C6
\* C6: the results never hold a path twice, and when the scan returns
\* without a cancellation they are exactly the files and directories the
\* sequential walk matches.
C6_SameAsSequentialWalk ==
    /\ NoDuplicates(matchedFiles \o matchedDirs)
    /\ (mainPc = "returned" /\ ~ctxDone) =>
          /\ Range(matchedFiles) = Naive.files
          /\ Range(matchedDirs) = Naive.dirs

\* An uncancelled scan has returned matches found by different workers,
\* under filters that reject some entries.
C6_Witness ==
    /\ mainPc = "returned"
    /\ ~ctxDone
    /\ ff.maxWorkers >= 2
    /\ Len(matchedFiles) >= 1
    /\ Len(matchedDirs) >= 1
    /\ ff.excludePatterns # <<>>
    /\ Range(matchedFiles) # fs.files

\* ---- C7
\* The paths of S inside the subtree of directory d.
Inside(d, S) == {p \in S : Len(p) > Len(d) /\ SubSeq(p, 1, Len(d)) = d}

\* The paths the finder has matched: in the shared results or in a batch.
FinderMatched ==
    Range(matchedFiles) \cup Range(matchedDirs)
    \cup UNION {Range(localFiles[w]) \cup Range(localDirs[w]) : w \in Workers}

\* The paths the finder has queued, listed or holds as a job.
FinderVisited ==
    BagToSet(enqueued) \cup Range(dirQueue) \cup senders
    \cup {d \in fs.dirs : listed[d] # <<>>}
    \cup ({wpath[w] : w \in Workers} \ {<<>>})

\* The paths the size scanner reports a size for, as children of the root.
ScannerReported ==
    {Join(fs.root, n) : n \in DOMAIN subfolderSizes \cup DOMAIN scanResult.Sizes}
    \cup {Join(fs.root, results[i].Name) : i \in 1..Len(results)}

\* The paths the size scanner has queued, listed, visited or counted.
ScannerVisited ==
    {workItems[i].Path : i \in 1..Len(workItems)}
    \cup {Join(fs.root, n) : n \in sentItems}
    \cup {jobs[i].Path : i \in 1..Len(jobs)}
    \cup listedDirs \cup counted

\* Directory d and its subtree were left alone by the finder.
FinderLeftAlone(d) ==
    /\ d \notin FinderMatched \cup FinderVisited
    /\ Inside(d, FinderMatched \cup FinderVisited) = {}

\* Directory d and its subtree were left alone by the size scanner: d was
\* not reported, queued or listed, and nothing inside it was visited.
ScannerLeftAlone(d) ==
    /\ d \notin ScannerReported \cup ScannerVisited
    /\ Inside(d, ScannerReported \cup ScannerVisited \cup visited) = {}

\* C7 as stated: every directory whose name is in the exclude set, the scan
\* root included, is left alone by the finder and by the size scanner.
C7_Original ==
    /\ \A d \in fs.dirs :
          Last(d) \in options.ExcludeDirs => FinderLeftAlone(d)
    /\ \A d \in fs.dirs :
          Last(d) \in scanOpts.ExcludeList => ScannerLeftAlone(d)

\* C7 (amended): a directory below the scan root whose name is in the
\* exclude set never appears in the results, is never queued or listed, and
\* nothing inside its subtree is visited, matched or counted, in the finder
\* and in the size scanner.  The scan root itself is listed whatever its
\* name.
C7_ExcludedSubtreesLeftAlone ==
    /\ \A d \in fs.dirs \ {fs.root} :
          Last(d) \in options.ExcludeDirs => FinderLeftAlone(d)
    /\ \A d \in fs.dirs \ {fs.root} :
          Last(d) \in scanOpts.ExcludeList => ScannerLeftAlone(d)

\* A finder scan has returned results from a tree in which a directory
\* that holds files bears an excluded name and its parent was listed.
C7_Witness ==
    /\ mainPc = "returned"
    /\ FinderMatched # {}
    /\ \E d \in fs.dirs \ {fs.root} :
          /\ Last(d) \in options.ExcludeDirs
          /\ Inside(d, fs.files) # {}
          /\ listed[SubSeq(d, 1, Len(d) - 1)] # <<>>

\* ---- C9
\* C9 as stated: every path ever sent to the queue, the root included, is a
\* directory that the exclusion filter let through.
C9_Original ==
    \A p \in BagToSet(enqueued) :
        /\ p \in fs.dirs
        /\ ~ShouldExclude(ff, p)

\* C9 (amended): the root is the first path sent and is sent once, without
\* being filtered; every other path ever sent to the queue is a directory
\* below the root that the exclusion filter let through before it was sent.
C9_JobsPassedFilter ==
    /\ enqueued # EmptyBag => CopiesIn(ff.basePath, enqueued) = 1
    /\ \A p \in BagToSet(enqueued) \ {ff.basePath} :
          /\ p \in fs.dirs
          /\ ~ShouldExclude(ff, p)

\* A scan has returned that queued children and listed the parent of a
\* directory the filter excludes.
C9_Witness ==
    /\ mainPc = "returned"
    /\ BagCardinality(enqueued) >= 2
    /\ \E d \in fs.dirs \ {ff.basePath} :
          /\ ShouldExclude(ff, d)
          /\ listed[SubSeq(d, 1, Len(d) - 1)] # <<>>

\* ---- C10
\* C10: a scan with maxResults = K of a tree that holds more than K matches
\* returns, and returns at least K results.
C10_LimitedScanReturnsK ==
    (NaiveCount > ff.maxResults) ~>
        (mainPc = "returned" /\ ResultCount >= ff.maxResults)

\* A limited scan has returned after the limit cancelled it part of the way.
C10_Witness ==
    /\ mainPc = "returned"
    /\ NaiveCount > ff.maxResults
    /\ ctxDone
    /\ ResultCount >= ff.maxResults
    /\ ResultCount < NaiveCount

SpecFilter == InitFilter /\ [][NextFilter]_vars

\* ---- C8
\* The path matches one of the exclude patterns given in the options.
MatchesAnExcludePattern(p) ==
    \E i \in 1..Len(options.ExcludePatterns) :
        MatchString(options.ExcludePatterns[i], p)

\* C8 as stated: the exclusion test returns true exactly when the entry's
\* name (the last component) is in the exclude-name set as given, compared
\* case-sensitively, or the full path matches an exclude pattern.
C8_Original ==
    exCalled =>
        (exResult <=>
            \/ exPath[Len(exPath)] \in options.ExcludeDirs
            \/ MatchesAnExcludePattern(exPath))

\* C8 (amended): the exclusion test returns true exactly when some
\* component of the path - the entry's own name or the name of any
\* directory above it - equals, ignoring case, a name of the exclude set,
\* or the full path matches an exclude pattern.
C8_ExcludeAnyComponentIgnoringCase ==
    exCalled =>
        (exResult <=>
            \/ \E i \in 1..Len(exPath) : \E d \in options.ExcludeDirs :
                  ToLower(exPath[i]) = ToLower(d)
            \/ MatchesAnExcludePattern(exPath))

\* The test excluded a path that no pattern matches and whose own name is
\* not in the set, in any case: it did so through the directory above it,
\* whose name is in the set only when case is ignored.
C8_Witness ==
    /\ exCalled
    /\ exResult
    /\ ~MatchesAnExcludePattern(exPath)
    /\ Len(exPath) = 2
    /\ exPath[2] \notin options.ExcludeDirs
    /\ exPath[1] \notin options.ExcludeDirs
    /\ ToLower(exPath[2]) \notin {ToLower(d) : d \in options.ExcludeDirs}

\* ---- C11
\* The directories of the full traversal that a worker had received before
\* the context was cancelled (every received directory is listed by the
\* time the scan returns).
DequeuedBeforeCancel == {d \in Naive.visited : listed[d] # <<>>} \ lateJobs

\* The directories of the full traversal not yet dequeued at that moment.
PendingAtCancel == Naive.visited \ DequeuedBeforeCancel

\* C11: a scan limited to K results on a tree with more than K matches does
\* not go on to visit the whole tree: when it returns after cancellation,
\* the directories that had not been dequeued when cancellation fired were
\* not all listed.
C11_PendingNotAllListed ==
    (/\ mainPc = "returned"
     /\ ctxDone
     /\ NaiveCount > ff.maxResults
     /\ PendingAtCancel # {})
        => \E d \in PendingAtCancel : listed[d] = <<>>

\* ---- C12
\* C12: with maxResults = K the number of results returned exceeds K by at
\* most one batch per worker, that is by at most workers x batch threshold.
C12_OvershootBounded ==
    mainPc = "returned"
        => ResultCount <= ff.maxResults + ff.maxWorkers * FlushThreshold

\* ---- C13
\* A finder scan has returned, after cancellation, less than the full
\* traversal finds.
FinderTruncated ==
    /\ mainPc = "returned"
    /\ ctxDone
    /\ Range(matchedFiles) \cup Range(matchedDirs) # Naive.files \cup Naive.dirs

\* A size scan has returned, after cancellation, without a size for one of
\* the work items.
ScannerTruncated ==
    /\ scanPc = "returned"
    /\ scanCtxDone
    /\ \E i \in 1..Len(workItems) :
          workItems[i].Name \notin DOMAIN scanResult.Sizes

\* C13: a scan that returns after cancellation cut the traversal short tells
\* its caller that the result is partial: the finder reports the
\* cancellation as it returns, and so does the size scanner.
C13_PartialIsIndicated ==
    /\ FinderTruncated => "cancelled" \in notices
    /\ ScannerTruncated => cancelNotice

\* ---- C14
\* Worker w leaves the comparison that follows its merge.
LeavesLimit(w) == pc[w] = "limit" /\ pc'[w] # "limit"

\* C14: every merge is followed by the comparison of the count it produced
\* with maxResults, which cancels the context when the count has reached or
\* exceeded it; the context goes from not done to done only there, at most
\* once however many workers cancel, and is never not done again.
C14_CancelOnceAtLimit ==
    [][/\ ctxDone => ctxDone'
       /\ \A w \in Workers :
             /\ (pc[w] = "merge" /\ pc'[w] # "merge")
                   => pc'[w] = "limit" /\ newCount'[w] = ResultCount'
             /\ LeavesLimit(w)
                   => /\ newCount[w] >= ff.maxResults => ctxDone'
                      /\ (newCount[w] < ff.maxResults /\ ~ctxDone) => ~ctxDone'
       /\ (~ctxDone /\ ctxDone')
             => \E w \in Workers : LeavesLimit(w) /\ newCount[w] >= ff.maxResults
       /\ ResultCount' >= ff.maxResults
             => \/ ctxDone'
                \/ \E w \in Workers :
                      pc'[w] = "limit" /\ newCount'[w] >= ff.maxResults
       /\ ctxDone' = (cancelCalls' > 0)]_vars

\* Two workers' flushes crossed maxResults: cancel was called twice and the
\* context is done.
C14_Witness ==
    /\ ctxDone
    /\ cancelCalls >= 2
    /\ ~sendPanic

\* ---- C15
\* Worker w performs wg.Add(1) for a directory it is about to queue.
AddsJob(w) == pc[w] = "add" /\ pc'[w] # "add"

\* Worker w sends a directory to dirQueue, or hands it to a goroutine that
\* will send it.
SendsJob(w) == pc[w] = "send" /\ pc'[w] # "send"

\* C15: once the context is cancelled no worker increments the count of
\* jobs in flight, sends a directory to the queue or hands one to an
\* overflow sender.
C15_NoEnqueueAfterCancel ==
    [][ctxDone => \A w \in Workers : ~AddsJob(w) /\ ~SendsJob(w)]_vars

\* ---- C16
\* C16: a worker observes the cancellation within one iteration of its
\* loop: no directory dequeued after the context was cancelled is listed.
C16_LateJobsNotListed == \A d \in lateJobs : listed[d] = <<>>

\* ---- C17
\* FindFilesAndDirs has returned: every worker goroutine has ended, its
\* local batch merged and emptied, and the lists hold every match recorded.
FinderQuiescent ==
    /\ workerWg = 0
    /\ resultsMu = 0
    /\ senders = {}
    /\ \A w \in Workers :
          /\ pc[w] \in {"off", "exited"}
          /\ w <= ff.maxWorkers => pc[w] = "exited"
          /\ localFiles[w] = <<>>
          /\ localDirs[w] = <<>>
    /\ ResultCount = BagCardinality(recorded)

\* GetSizesOfSubfolders has returned: every worker goroutine has ended and
\* every result it sent has been gathered into the map returned.
ScannerQuiescent ==
    /\ wg = 0
    /\ results = <<>>
    /\ \A w \in ScanWorkers :
          /\ spc[w] \in {"off", "exited"}
          /\ w <= numWorkers => spc[w] = "exited"
    /\ scanResult.Sizes = subfolderSizes
    /\ numWorkers > 0 => scanResult.WarningCount = warningCount

\* C17: a scan returns only once every worker has exited and merged its
\* last batch, cancelled or not, and nothing writes to the returned result
\* from then on (finder and size scanner).
C17_ReturnAfterWorkers ==
    /\ [](mainPc = "returned" => FinderQuiescent)
    /\ [](scanPc = "returned" => ScannerQuiescent)
    /\ [][/\ mainPc = "returned"
             => UNCHANGED <<matchedFiles, matchedDirs, mainPc>>
          /\ scanPc = "returned"
             => UNCHANGED <<scanResult, subfolderSizes, warningCount, scanPc>>]_vars

\* A cancelled scan of several workers has returned, a job dequeued after
\* the cancellation having added to the result.
C17_Witness ==
    /\ mainPc = "returned"
    /\ ctxDone
    /\ ff.maxWorkers >= 2
    /\ lateJobs # {}
    /\ ResultCount > ff.maxResults
    /\ FinderQuiescent

\* ---- C18
\* How many times path p occurs in the list q.
Occurrences(q, p) == Cardinality({i \in 1..Len(q) : q[i] = p})

\* How many times p stands in the shared result lists.
Merged(p) == Occurrences(matchedFiles, p) + Occurrences(matchedDirs, p)

\* How many times p stands in the local batches of workers 1..n that are
\* still to be merged (a worker between its merge and the clearing of its
\* batch holds a batch that is merged already).
RECURSIVE Unmerged(_, _)
Unmerged(n, p) ==
    IF n = 0 THEN 0
    ELSE Unmerged(n - 1, p)
         + (IF pc[n] = "limit" THEN 0
            ELSE Occurrences(localFiles[n], p) + Occurrences(localDirs[n], p))

\* C18: every match appended to a local batch is merged into the shared
\* lists exactly once, by a flush past the threshold or by the flush at the
\* end of the worker's loop; a flush leaves the batch empty; the lists
\* returned hold every recorded match exactly once, cancelled or not.
C18_MergedExactlyOnce ==
    /\ [](\A p \in Paths(fs) :
             /\ CopiesIn(p, recorded) = Merged(p) + Unmerged(NumWorkers, p)
             /\ mainPc = "returned" => Merged(p) = CopiesIn(p, recorded))
    /\ [](\A w \in Workers :
             pc[w] = "merge"
                => \/ draining[w]
                   \/ Len(localFiles[w]) + Len(localDirs[w]) > FlushThreshold)
    /\ [][\A w \in Workers :
             (pc[w] = "limit" /\ pc'[w] # "limit")
                => localFiles'[w] = <<>> /\ localDirs'[w] = <<>>]_vars

\* A cancelled scan has returned: at least three matches were recorded,
\* files and directories, and the lists returned hold each of them once.
C18_Witness ==
    /\ mainPc = "returned"
    /\ ctxDone
    /\ BagCardinality(recorded) >= 3
    /\ \A p \in Paths(fs) : Merged(p) = CopiesIn(p, recorded)
    /\ ResultCount > Len(matchedFiles)
    /\ Len(matchedFiles) > 0

\* ---- C19
\* The workers inside the merge of flush (between Lock and Unlock).
InMerge == {w \in Workers : pc[w] = "merge"}

\* Worker w reads a directory or looks at an entry of it (os.ReadDir,
\* os.Stat through GetFileSize).
DoesIO(w) == pc[w] \in {"readdir", "entry"} /\ pc'[w] # pc[w]

\* C19: the shared result lists change only in a step of the worker that
\* holds the results mutex, at most one worker is inside the merge, and the
\* holder of the mutex neither lists a directory nor stats a file.
C19_MergeUnderMutex ==
    /\ [](/\ Cardinality(InMerge) <= 1
          /\ \A w \in Workers : (resultsMu = w) <=> (pc[w] = "merge"))
    /\ [][/\ (matchedFiles' # matchedFiles \/ matchedDirs' # matchedDirs)
             => \E w \in Workers :
                   /\ resultsMu = w
                   /\ pc[w] = "merge" /\ pc'[w] # "merge"
          /\ \A w \in Workers : DoesIO(w) => resultsMu # w
          /\ (listed' # listed \/ fileCache' # fileCache)
             => \E w \in Workers : DoesIO(w)]_vars

\* A worker is inside the merge while another, its batch not empty, waits
\* for the mutex.
C19_Witness ==
    \E w, v \in Workers :
        /\ w # v
        /\ resultsMu = w
        /\ pc[w] = "merge"
        /\ pc[v] = "lock"
        /\ Len(localFiles[v]) + Len(localDirs[v]) > 0

\* ---- C20
\* C20: however concurrent calls of GetFileSize interleave, the cache never
\* holds more entries than its capacity; a call on a path that can be
\* stat'ed returns the file's size, from the cache or from os.Stat alike; a
\* store that finds the cache full leaves it as it is and the call still
\* returns the size.
C20_CacheBoundedAndTransparent ==
    /\ [](/\ Cardinality(DOMAIN fileCache) <= CacheCap
          /\ \A p \in DOMAIN fileCache : fileCache[p] = FileSize(fs, p)
          /\ \A c \in Callers :
                gpc[c] = "done"
                   => /\ gok[c] <=> gpath[c] \notin fs.nostat
                      /\ gok[c] => gsize[c] = FileSize(fs, gpath[c])
                      /\ ~gok[c] => gsize[c] = 0)
    /\ [][\A c \in Callers :
             (/\ gpc[c] = "store" /\ gpc'[c] = "done"
              /\ Cardinality(DOMAIN fileCache) >= CacheCap)
                => /\ fileCache' = fileCache
                   /\ gok'[c]
                   /\ gsize'[c] = FileSize(fs, gpath[c])]_vars

\* The cache is full, a caller has been returned the size of a path that is
\* not cached while another caller is between its stat and its store.
C20_Witness ==
    /\ Cardinality(DOMAIN fileCache) = CacheCap
    /\ \E c, b \in Callers :
          /\ c # b
          /\ gpc[c] = "done"
          /\ gok[c]
          /\ gpath[c] \notin DOMAIN fileCache
          /\ gsize[c] = FileSize(fs, gpath[c])
          /\ gpc[b] = "store"

\* ---- C21
\* Worker w handles a matching file whose size is looked up and cannot be
\* read: os.Stat fails in GetFileSize, which returns ok = false.
StatFails(w) ==
    /\ pc[w] = "entry"
    /\ wents'[w] # wents[w]
    /\ LET fullPath == Join(wpath[w], Head(wents[w]))
       IN  /\ fullPath \in fs.files
           /\ ~ShouldExclude(ff, fullPath)
           /\ MatchesPattern(ff, Head(wents[w]))
           /\ SizeLookedUp(ff, fullPath)
           /\ ~GetFileSizeOk(fs, fileCache, fullPath)

\* C21: when the stat of a path fails the size lookup returns ok = false
\* (the file is not kept), the warning counter goes up by one, and the scan
\* goes on with the remaining entries of the directory.
C21_StatFailureCounted ==
    [][\A w \in Workers :
          StatFails(w)
             => /\ localFiles' = localFiles
                /\ skippedDirs' = skippedDirs + 1
                /\ wents'[w] = Tail(wents[w])
                /\ pc'[w] = NextEntryPc(wents'[w])]_vars

\* ---- C22
\* Worker w lists the directory of its job and os.ReadDir fails.
ReadDirFails(w) ==
    /\ pc[w] = "readdir"
    /\ pc'[w] # "readdir"
    /\ ReadDirErr(fs, wpath[w])

\* The directories whose listing failed.
FailedDirs == {d \in DOMAIN listed : ReadDirErr(fs, d) /\ listed[d] # <<>>}

\* Path p lies directly in directory d.
ChildOf(p, d) == Len(p) = Len(d) + 1 /\ SubSeq(p, 1, Len(d)) = d

\* C22: a directory whose listing fails adds exactly one to the skipped
\* counter, contributes no match and no child job, and its job is still
\* marked done; every other reachable directory is still listed and the
\* scan returns.
C22_UnreadableDirSkipped ==
    /\ [][\A w \in Workers :
             ReadDirFails(w)
                => /\ skippedDirs' = skippedDirs + 1
                   /\ pc'[w] = "check"
                   /\ UNCHANGED <<localFiles, localDirs, recorded, enqueued,
                                  senders, dirQueue, processingWg>>]_vars
    /\ [](/\ skippedDirs = Cardinality(FailedDirs)
          /\ \A d \in fs.unreadable, p \in Paths(fs) :
                ChildOf(p, d)
                   => /\ CopiesIn(p, recorded) = 0
                      /\ CopiesIn(p, enqueued) = 0
                      /\ p \notin senders
          /\ mainPc = "returned" => processingWg = 0
          /\ (mainPc = "returned" /\ ~ctxDone)
                => \A d \in ReachableDirs : Len(listed[d]) = 1)
    /\ (FailedDirs # {}) ~> (mainPc = "returned")

\* An uncancelled scan has returned: one directory could not be listed and
\* was counted, the other directories were listed.
C22_Witness ==
    /\ mainPc = "returned"
    /\ ~ctxDone
    /\ skippedDirs = 1
    /\ FailedDirs # {}
    /\ FailedDirs \subseteq ReachableDirs
    /\ Cardinality(ReachableDirs \ FailedDirs) >= 2
    /\ \A d \in ReachableDirs : listed[d] # <<>>
    /\ ResultCount > 0

\* ---- C23
\* The root the scan is given does not exist or is not a directory.
RootInvalid == fs.root \notin fs.dirs

\* FindFilesAndDirs has started no worker and queued no job, and holds no
\* result.
FinderNeverStarted ==
    /\ \A w \in Workers : pc[w] = "off"
    /\ workerWg = 0
    /\ enqueued = EmptyBag
    /\ dirQueue = <<>>
    /\ ResultCount = 0

\* GetSizesOfSubfolders has started no worker and sent no job, and holds no
\* result.
ScannerNeverStarted ==
    /\ \A w \in ScanWorkers : spc[w] = "off"
    /\ numWorkers = 0
    /\ sentItems = {}
    /\ jobs = <<>>
    /\ DOMAIN subfolderSizes = {}
    /\ DOMAIN scanResult.Sizes = {}

\* C23: with a root that does not exist or is not a directory the scan
\* fails at once, in the size scanner and in the finder alike: no worker is
\* started, no job is enqueued, and the result is empty.
C23_InvalidRootFailsFast ==
    RootInvalid => FinderNeverStarted /\ ScannerNeverStarted

\* ---------------------------------------------------------------- C24
\* Size values that are no size: a unit with no number, letters that are no
\* unit, a unit that is not known, the empty value.
UnparsableSizes == {<<"K", "B">>, <<"a", "b", "c">>, <<"1", "G">>, <<>>}

\* The command was given a value that cannot be used.
InvalidInput ==
    \/ execArgs.minSize \in UnparsableSizes
    \/ execArgs.maxSize \in UnparsableSizes
    \/ ~GlobCompiles(execArgs.pattern)
    \/ \E i \in 1..Len(execArgs.excludePatterns) :
          ~RegexCompiles(execArgs.excludePatterns[i])

NothingListed == \A d \in DOMAIN listed : listed[d] = <<>>

\* The step the command takes next ends it with an error.
FailsNow == execPc' = "error" /\ execErr' # ""

\* C24: a command given an invalid match pattern, an invalid exclude regex
\* or an unparsable size value has started no worker and listed no
\* directory, at any time; the step that parses an unparsable size and the
\* step that constructs the finder from an invalid pattern end it with an
\* error; the error is set exactly when the command has failed, which never
\* happens once the scan has begun.
C24_InvalidInputFailsBeforeScan ==
    /\ [](execPc # "off" /\ InvalidInput
            => /\ execPc \in {"minsize", "maxsize", "new", "error"}
               /\ mainPc = "off"
               /\ FinderNeverStarted
               /\ NothingListed)
    /\ [][/\ execPc = "minsize" /\ execArgs.minSize \in UnparsableSizes
             => FailsNow
          /\ execPc = "maxsize" /\ execArgs.maxSize \in UnparsableSizes
             => FailsNow
          /\ execPc = "new" /\ InvalidInput => FailsNow]_vars
    /\ []((execErr # "") <=> (execPc = "error"))
    /\ [](execPc = "error" => mainPc = "off" /\ FinderNeverStarted
                              /\ NothingListed)
    /\ [][mainPc # "off" => /\ execErr' = "" /\ execPc' \in {"scan", "done"}
                            /\ ff' = ff /\ options' = options]_vars

\* The command has failed on an exclude pattern that is no regular
\* expression, both sizes having been parsed (1.5KB as 1536 bytes), with
\* the scan not begun.
C24_Witness ==
    /\ execPc = "error"
    /\ execErr = "invalid exclude pattern"
    /\ execArgs.minSize = <<"1", ".", "5", "K", "B">>
    /\ options.MinSize = 1536
    /\ mainPc = "off"

\* ---------------------------------------------------------------- C25
\* The scheduler leaves no goroutine of the size scanner that can take a
\* step waiting for ever.
FairSpecScanner == SpecScanner /\ WF_vars(NextScanner)

\* Worker w's walk is given its next path in this step.
WalkStep(w) ==
    /\ spc[w] = "walk"
    /\ spc'[w] # spc[w] \/ walkStack'[w] # walkStack[w]

\* The links below a top-level child: those a walk can meet.
InnerLinks == {l \in fs.links : Len(l) > Len(fs.root) + 1}

\* C25: no symbolic link is ever listed, and none met by a walk is counted;
\* the step that meets one leaves the total alone and goes on with the
\* paths that were left; a walk is given no path twice and adds a size only
\* for a file not counted before; and every scan returns, with no walk
\* still under way.
C25_SymlinksNotFollowed ==
    /\ [](/\ listedDirs \cap fs.links = {}
          /\ counted \cap InnerLinks = {})
    /\ [][\A w \in ScanWorkers :
            WalkStep(w) =>
                LET p == Head(walkStack[w])
                IN  /\ p \notin visited
                    /\ p \in fs.links =>
                          /\ totalSize'[w] = totalSize[w]
                          /\ counted' = counted
                          /\ listedDirs' = listedDirs
                          /\ walkStack'[w] \in {Tail(walkStack[w]), <<>>}
                    /\ totalSize'[w] # totalSize[w] =>
                          p \in fs.files /\ p \notin counted]_vars
    /\ (scanPc = "start") ~> (scanPc = "returned" /\ \A w \in ScanWorkers :
                                                         spc[w] # "walk")

\* An uncancelled scan has returned after a walk met the link that points
\* back at the root; the file beside the link was counted.
C25_Witness ==
    /\ scanPc = "returned"
    /\ ~scanCtxDone
    /\ fs = STree2
    /\ <<"lib", "src", "lib">> \in visited
    /\ <<"lib", "src", "x.go">> \in counted
    /\ "src" \in DOMAIN scanResult.Sizes
    /\ scanResult.Sizes["src"] = 2

\* ---------------------------------------------------------------- C26
RECURSIVE SumSizes(_, _)
SumSizes(t, S) ==
    IF S = {} THEN 0
    ELSE LET f == CHOOSE x \in S : TRUE
         IN  FileSize(t, f) + SumSizes(t, S \ {f})

\* Path c is a proper prefix of path p.
Above(c, p) == Len(c) < Len(p) /\ SubSeq(p, 1, Len(c)) = c

\* The files in the subtree of the immediate child c that bear no excluded
\* name and lie below no directory of an excluded name.
KeptFiles(t, o, c) ==
    {f \in t.files :
        /\ Above(c, f)
        /\ \A i \in (Len(c) + 1)..Len(f) : f[i] \notin o.ExcludeList}

\* Those of them not below a directory more than MaxDepth levels under c
\* (all of them when MaxDepth is 0).
KeptFilesInDepth(t, o, c) ==
    {f \in KeptFiles(t, o, c) :
        o.MaxDepth > 0 => Len(f) - 1 - Len(c) <= o.MaxDepth}

\* The names of the immediate children of the root that are not excluded.
KeptChildren(t, o) ==
    {n \in Names : /\ Join(t.root, n) \in t.dirs \cup t.files \cup t.links
                   /\ n \notin o.ExcludeList}

\* Nothing in the tree is inaccessible.
NoAccessErrors ==
    /\ fs.root \in fs.dirs
    /\ fs.unreadable = {}
    /\ fs.nostat = {}
    /\ \A l \in fs.links : fs.target[l] \in fs.files

\* An uncancelled scan of a tree without inaccessible paths has returned.
CleanReturn == scanPc = "returned" /\ ~scanCtxDone /\ NoAccessErrors

ChildAbove(p) == SubSeq(p, 1, Len(fs.root) + 1)

\* How many levels path p lies below its top-level child.
DepthOf(p) == Len(p) - Len(ChildAbove(p))

\* The directories below a top-level child directory.
InnerDirs == {d \in fs.dirs : Len(d) > Len(fs.root) + 1}

\* The files of the subtrees of the top-level child directories.
InnerFiles ==
    {f \in fs.files : Len(f) > Len(fs.root) + 1 /\ ChildAbove(f) \in fs.dirs}

\* No name of path p from its top-level child on is excluded.
NotExcluded(p) ==
    \A i \in (Len(fs.root) + 1)..Len(p) : p[i] \notin scanOpts.ExcludeList

\* C27: with MaxDepth = d > 0 a directory more than d levels below its
\* top-level child is never listed and no file under it is visited or
\* counted, while an uncancelled scan that has returned has counted every
\* non-excluded file that can be examined of the readable directories at
\* depth d or less; with MaxDepth = 0 such a scan has counted every such
\* file at whatever depth.
C27_DepthLimit ==
    /\ scanOpts.MaxDepth > 0 =>
          \A d \in InnerDirs :
              DepthOf(d) > scanOpts.MaxDepth =>
                  /\ d \notin listedDirs
                  /\ \A p \in fs.dirs \cup fs.files \cup fs.links :
                        Above(d, p) => p \notin visited \cup counted
    /\ scanPc = "returned" /\ ~scanCtxDone =>
          \A f \in InnerFiles :
              /\ NotExcluded(f)
              /\ f \notin fs.nostat
              /\ \A i \in (Len(fs.root) + 1)..(Len(f) - 1) :
                    SubSeq(f, 1, i) \notin fs.unreadable
              /\ scanOpts.MaxDepth > 0 => DepthOf(f) - 1 <= scanOpts.MaxDepth
              => f \in counted

\* A scan with MaxDepth = 1 has returned: the directory two levels below a
\* top-level child was passed over without being listed, and the file in
\* the directory one level below was counted.
C27_Witness ==
    /\ scanPc = "returned"
    /\ ~scanCtxDone
    /\ fs = STree1
    /\ scanOpts.MaxDepth = 1
    /\ <<"src", "src", "src", "src">> \in visited \ listedDirs
    /\ <<"src", "src", "src", "x.go">> \in counted
    /\ <<"src", "src", "src", "src", "y.md">> \notin counted

\* ---------------------------------------------------------------- C28
\* The paths a scan was given that it could not examine: a file or a link
\* whose stat fails, a directory whose listing fails, none of them bearing an
\* excluded name or, for a directory, lying deeper than MaxDepth.
MetInaccessible ==
    {p \in visited :
        /\ NotExcluded(p)
        /\ \/ p \in fs.files \cap fs.nostat
           \/ p \in fs.links /\ Len(p) = Len(fs.root) + 1 /\ ~Stat(fs, p).ok
           \/ /\ p \in fs.dirs \cap fs.unreadable
              /\ scanOpts.MaxDepth > 0 => DepthOf(p) <= scanOpts.MaxDepth}

\* Worker w's callback is called a second time, with the error of a listing.
WalkErrStep(w) == spc[w] = "walkerr" /\ spc'[w] # "walkerr"

\* Worker w examines an item that is no directory.
StatStep(w) == spc[w] = "size" /\ spc'[w] = "result"

\* The step counts one warning and the walk of w goes on with what was left.
WarnsAndGoesOn(w) ==
    /\ warningCount' = warningCount + 1
    /\ totalSize'[w] = totalSize[w]
    /\ walkStack'[w] = Tail(walkStack[w])
    /\ spc'[w] = AfterVisit(Tail(walkStack[w]))

\* C28: while the context is live, the step that meets a file it cannot
\* examine, a directory it cannot list or an item it cannot stat counts
\* exactly one warning, and a walk goes on with its remaining paths; the
\* counter never exceeds the number of inaccessible paths met; an
\* uncancelled scan returns an entry for every non-excluded child and a
\* WarningCount equal to the number of inaccessible paths met; and the
\* count returned is the counter, which no step changes after the return.
C28_ErrorsCountedScanContinues ==
    /\ [][\A w \in ScanWorkers :
            ~scanCtxDone =>
                /\ WalkStep(w) /\ Head(walkStack[w]) \in fs.files \cap fs.nostat
                     /\ NotExcluded(Head(walkStack[w]))
                   => WarnsAndGoesOn(w)
                /\ WalkErrStep(w) => WarnsAndGoesOn(w)
                /\ StatStep(w) /\ ~Stat(fs, sitem[w].Path).ok
                   => /\ warningCount' = warningCount + 1
                      /\ totalSize'[w] = 0]_vars
    /\ [](warningCount <= Cardinality(MetInaccessible))
    /\ [](scanPc = "returned" /\ ~scanCtxDone /\ numWorkers > 0
            => /\ scanResult.WarningCount = Cardinality(MetInaccessible)
               /\ DOMAIN scanResult.Sizes = KeptChildren(fs, scanOpts))
    /\ [](scanPc = "returned" /\ numWorkers > 0
            => scanResult.WarningCount = warningCount)
    /\ [][scanPc = "returned" => warningCount' = warningCount]_vars

\* Two workers have met two files that cannot be examined and two
\* directories that cannot be listed; the scan has returned its three
\* entries and four warnings.
C28_Witness ==
    /\ scanPc = "returned"
    /\ ~scanCtxDone
    /\ fs = STree3
    /\ numWorkers = 2
    /\ scanResult.WarningCount = 4
    /\ scanResult.Sizes = [n \in {"lib", "src", "x.go"} |->
                              IF n = "src" THEN 2 ELSE 0]

\* ---------------------------------------------------------------- C29
\* The context is cancelled in this step.
CancelStep == ~scanCtxDone /\ scanCtxDone'

\* Worker w gives up in this step because it finds the context cancelled:
\* before an item, inside a walk, or instead of sending its result.
NoticesCancel(w) ==
    /\ scanCtxDone
    /\ \/ spc[w] = "ctx" /\ spc'[w] = "exited"
       \/ spc[w] \in {"walk", "walkerr"} /\ spc'[w] = "result"
            /\ walkStack[w] # <<>> /\ walkStack'[w] = <<>>
       \/ spc[w] = "result" /\ spc'[w] = "exited"

\* C29: neither the cancellation itself nor a worker that gives up because
\* of it changes the warning counter, so on a tree with no inaccessible path
\* the counter stays 0 and every scan, cancelled or not, returns
\* WarningCount = 0.
C29_CancellationIsNoWarning ==
    /\ [][/\ CancelStep => warningCount' = warningCount
          /\ \A w \in ScanWorkers :
                NoticesCancel(w) => warningCount' = warningCount]_vars
    /\ [](NoAccessErrors => warningCount = 0)
    /\ [](NoAccessErrors /\ scanPc = "returned"
            => scanResult.WarningCount = 0)

\* A scan of a tree with no inaccessible path was cancelled while it ran and
\* has returned without an entry for every child, and with no warning.
C29_Witness ==
    /\ scanPc = "returned"
    /\ scanCtxDone
    /\ cancelNotice
    /\ NoAccessErrors
    /\ numWorkers > 0
    /\ DOMAIN scanResult.Sizes # KeptChildren(fs, scanOpts)
    /\ scanResult.WarningCount = 0

\* ---------------------------------------------------------------- C30
\* The cancellation signal is set in this step.
SignalTriggered == ~ctxDone /\ ctxDone'

PendingJobs == Len(dirQueue) + Cardinality(senders)

ScannerAllTerminated ==
    /\ scanPc = "returned"
    /\ feederPc \in {"off", "done"}
    /\ closerPc \in {"off", "done"}
    /\ \A w \in ScanWorkers : spc[w] \in {"off", "exited"}

\* C32: from every state of a scan, cancelled or not, the scan comes to the
\* state in which GetSizesOfSubfolders has returned and the feeder, the
\* workers and the closing goroutine have all ended; when it has returned,
\* the workers and the closing goroutine have ended already.
C32_ScannerAlwaysReturns ==
    /\ (scanPc # "off") ~> ScannerAllTerminated
    /\ [](scanPc = "returned" =>
            /\ closerPc \in {"off", "done"}
            /\ \A w \in ScanWorkers : spc[w] \in {"off", "exited"})

\* A cancelled scan has ended with every goroutine gone while an item sent
\* before the cancellation is still on the jobs channel.
C32_Witness ==
    /\ ScannerAllTerminated
    /\ scanCtxDone
    /\ numWorkers > 0
    /\ jobs # <<>>

\* ---------------------------------------------------------------- C33
\* Worker w takes an item from the jobs channel in this step.
Dequeues(w) == spc[w] = "recv" /\ spc'[w] = "ctx"

\* Worker w starts computing the size of its item in this step.
StartsSizing(w) == spc[w] = "ctx" /\ spc'[w] = "size"

\* C33: in a step taken with the context cancelled nothing is put on the
\* jobs channel and no worker starts computing the size of its item.
C33_NoDispatchAfterCancel ==
    [][scanCtxDone =>
          /\ Len(jobs') <= Len(jobs)
          /\ sentItems' = sentItems
          /\ \A w \in ScanWorkers : ~StartsSizing(w)]_vars

\* ---------------------------------------------------------------- C34
\* The complete recursive size of the immediate child named n: for a
\* directory the sizes of the files a whole walk counts, for anything else
\* the size its stat reports.
CompleteSize(n) ==
    LET c == Join(fs.root, n)
    IN  IF c \in fs.dirs
        THEN SumSizes(fs, KeptFilesInDepth(fs, scanOpts, c) \ fs.nostat)
        ELSE Stat(fs, c).size

\* C34: every entry of the Sizes map that GetSizesOfSubfolders returns holds
\* the complete recursive size of its child, also when the scan was
\* cancelled.
C34_EntriesAreComplete ==
    scanPc = "returned" =>
        \A n \in DOMAIN scanResult.Sizes : scanResult.Sizes[n] = CompleteSize(n)

\* ---- C35
\* Worker w holds a directory it has counted and not yet sent or handed over.
HoldsJob(w) == pc[w] = "send"

\* No worker and no overflow sender holds a job to send.
NoJobHeld == senders = {} /\ \A w \in Workers : ~HoldsJob(w)

\* C35: no task ever sends on the work queue after it has been closed.  The
\* monitor closes the queue only in a state where no worker and no overflow
\* sender holds a job to send, no job is held at any later moment, nothing is
\* appended to a closed queue, and no send hits a closed queue; cancellation
\* changes none of this.
C35_NoSendAfterClose ==
    /\ [](closed => NoJobHeld /\ ~sendPanic)
    /\ [][(closed' /\ ~closed) => NoJobHeld /\ processingWg = 0]_vars
    /\ [][closed => Len(dirQueue') <= Len(dirQueue) /\ enqueued' = enqueued]_vars

\* The queue was closed in a cancelled scan that had returned: more jobs than
\* the queue can hold at once had been sent, and every one of them was sent
\* while the queue was still open.
C35_Witness ==
    /\ closed
    /\ ctxDone
    /\ mainPc = "returned"
    /\ BagCardinality(enqueued) > QueueCap + 1
    /\ NoJobHeld
    /\ ~sendPanic

\* ---- C36
\* The workers, the completion monitor and the overflow senders have ended.
ScanTasksEnded ==
    /\ \A w \in Workers : pc[w] \in {"off", "exited"}
    /\ monitorPc = "done"
    /\ senders = {}

\* The progress updater was not started or has left its loop.
UpdaterEnded == updaterPc \in {"off", "done"}

\* C36: when FindFilesAndDirs has returned, every task it started has
\* terminated: the workers, the completion monitor, every overflow sender
\* and the progress updater, after a natural completion and after a
\* cancellation.
C36_AllTasksEndedAtReturn ==
    mainPc = "returned" => ScanTasksEnded /\ UpdaterEnded

\* ---- C37
\* C37: in every reachable state the progress tracker has processedDirs <=
\* totalDirs, and its totalDirs never decreases, whatever the interleaving of
\* the workers that count a new directory and then publish the total.
C37_TrackerConsistent ==
    /\ [](trackerProcessedDirs <= trackerTotalDirs)
    /\ [][trackerTotalDirs' >= trackerTotalDirs]_vars

\* ---- C38
\* The signal goroutine has cancelled the context.
Interrupted == sigPc = "done" /\ stCtxDone

\* RunStressTest has returned and feeder, workers and closer have ended.
StressTerminated ==
    /\ stMainPc = "returned"
    /\ stFeederPc = "done"
    /\ stCloserPc = "done"
    /\ stWorkers["exited"] = stArgs.concurrency
    /\ stSending = {}

\* Every result a worker produced was passed to Record exactly once.
RecordedExactlyOnce ==
    /\ Len(stRecordedIds) = stProduced
    /\ Range(stRecordedIds) = 1..stProduced
    /\ Len(collector.latencies) = stProduced
    /\ collector.successes + collector.failures = stProduced
    /\ collector.statusCount[0] + collector.statusCount[200] = stProduced

\* C38: after an interrupt has cancelled the context RunStressTest ends
\* gracefully.  The feeder sends nothing after a look at the cancelled
\* context and ends; no worker starts a request once the context is
\* cancelled, so each exits after at most the request it is executing;
\* results is closed only when every worker has exited; no result is ever
\* recorded twice and at the return every result produced has been
\* recorded exactly once; nobody stays blocked: the function returns, and
\* feeder, workers and closer end.
C38_GracefulStop ==
    /\ Interrupted ~> StressTerminated
    /\ [][stCtxDone => /\ stWorkers'["exec"] <= stWorkers["exec"]
                       /\ (stFeederPc = "check" => stFeederPc' # "send")]_vars
    /\ [](stResultsClosed => /\ stWorkers["exited"] = stArgs.concurrency
                             /\ stSending = {})
    /\ [](NoDuplicates(stRecordedIds) /\ Range(stRecordedIds) \subseteq 1..stProduced)
    /\ [](stMainPc = "returned" => /\ RecordedExactlyOnce
                                   /\ stResultsClosed
                                   /\ stCloserPc = "done")

\* An interrupted test of several workers has ended: fewer requests than
\* asked for were executed, a worker gave up a token it had taken, and the
\* one result produced, recorded from the batch left over after the loop, is
\* in the collector.
C38_Witness ==
    /\ Interrupted
    /\ StressTerminated
    /\ stArgs.concurrency = StressWorkers
    /\ stProduced = 1
    /\ stFeedI > stProduced
    /\ stProduced < stArgs.totalRequests
    /\ stCompleted < stArgs.totalRequests
    /\ RecordedExactlyOnce

\* ---- C39
\* processFile has returned from a call made with the backup option.
ReturnedWithBackup == rfPc = "returned" /\ rfArgs.createBackup

\* The file needs no change: it is not valid UTF-8 or lacks the old text.
NothingToDo == ~Valid(rfOrig) \/ ~Contains(rfOrig, rfArgs.oldText)

\* C39: processFile with backup never loses the original content.  At every
\* return the original bytes are at the original path or in <file>.bak: at
\* the path when the file was not changed or was restored after a failed
\* write, in the backup after a successful replacement or a failed restore.
\* A file without the old text, or not valid UTF-8, is left untouched and
\* gets no backup (what <file>.bak held stays).
C39_OriginalNeverLost ==
    /\ ReturnedWithBackup => rfOrig \in {rfFile, rfBak}
    /\ ReturnedWithBackup /\ rfErr = "" /\ ~NothingToDo
          => /\ rfBak = rfOrig
             /\ rfFile = ReplaceAll(rfOrig, rfArgs.oldText, rfArgs.newText)
    /\ ReturnedWithBackup /\ rfErr = "failed to write file"
          => rfFile = rfOrig /\ rfBak = Absent
    /\ ReturnedWithBackup /\ rfErr = "failed to write file and restore backup"
          => rfBak = rfOrig
    /\ ReturnedWithBackup /\ rfErr \in {"failed to read file", "failed to create backup"}
          => rfFile = rfOrig
    /\ rfPc = "returned" /\ NothingToDo
          => rfFile = rfOrig /\ rfBak = rfBak0

\* The write failed after it had truncated the new file, the restore put the
\* original back over it: an older backup is gone, the original is at its
\* path.
C39_Witness ==
    /\ ReturnedWithBackup
    /\ rfErr = "failed to write file"
    /\ rfBak0 # Absent
    /\ rfOrig = <<"a", "b">>
    /\ rfFile = rfOrig

====
